---- MODULE Spec2Model ----
(***************************************************************************)
(* A model of cocofs (src/cocofs.c): the in-memory CoCo DOS file system    *)
(* image, its granule map and directory, and the operations on them        *)
(* (format, load, lookup, stat, dump, rm, copyout, copyin).                *)
(*                                                                         *)
(* The geometry is the program's own (35 tracks, 68 granules of 2304       *)
(* bytes, 72 directory slots).  The bytes of a data granule are kept as a  *)
(* run list: a sequence of segments, each either `len` copies of one byte  *)
(* or `len` consecutive bytes of a host file starting at `off`.  BufByte   *)
(* gives the byte at a position, so a run list denotes exactly one byte    *)
(* array; RunNorm keeps the representation canonical.                      *)
(***************************************************************************)
EXTENDS Integers, Sequences, FiniteSets, TLC

(***************************************************************************)
(* Geometry (cocofs.c 113-128).                                            *)
(***************************************************************************)
COCOFS_TRACKS == 35
COCOFS_SEC_PER_TRACK == 18
COCOFS_SEC_PER_GRANULE == 9
COCOFS_BYTES_PER_SEC == 256
COCOFS_BYTES_PER_TRACK == COCOFS_SEC_PER_TRACK * COCOFS_BYTES_PER_SEC
COCOFS_BYTES_PER_GRANULE == COCOFS_SEC_PER_GRANULE * COCOFS_BYTES_PER_SEC
COCOFS_TOTALSIZE == COCOFS_TRACKS * COCOFS_SEC_PER_TRACK * COCOFS_BYTES_PER_SEC
COCOFS_DIR_TRACK == 17
COCOFS_GRANULES_PER_TRACK == COCOFS_SEC_PER_TRACK \div COCOFS_SEC_PER_GRANULE
COCOFS_NGRANULES == (COCOFS_TRACKS - 1) * COCOFS_GRANULES_PER_TRACK

cocofs_track_to_offset(track) ==
    track * (COCOFS_SEC_PER_TRACK * COCOFS_BYTES_PER_SEC)

cocofs_sector_to_offset(sector) == (sector - 1) * COCOFS_BYTES_PER_SEC

\* A mapping that does not step over the directory track.
cocofs_granule_to_track_noskip(granule) == granule \div COCOFS_GRANULES_PER_TRACK

cocofs_granule_to_track(granule) ==
    LET track == granule \div COCOFS_GRANULES_PER_TRACK
    IN  IF track >= COCOFS_DIR_TRACK THEN track + 1 ELSE track

cocofs_granule_to_offset(granule) ==
    LET offset == cocofs_track_to_offset(cocofs_granule_to_track(granule))
    IN  IF granule % 2 = 1 THEN offset + COCOFS_BYTES_PER_GRANULE ELSE offset

(***************************************************************************)
(* Granule map entries (cocofs.c 207-221).  An entry is one byte.          *)
(***************************************************************************)
GMAP_SECTOR == 2
GMAP_FREE == 255
GMAP_ALLOCATED == 254
GMAP_LAST == 192

\* (v & 0xc0) == 0xc0 on a byte: the top two bits are both set.
GMAP_IS_LAST(v) == (v \div 64) % 4 = 3

\* v & 0x0f
GMAP_LAST_NSEC(v) == v % 16

gmap_entry_is_valid(v) ==
    \/ v <= COCOFS_NGRANULES
    \/ (v >= 192 /\ v <= 201)
    \/ v = GMAP_FREE

(***************************************************************************)
(* Directory entries (cocofs.c 223-247).                                   *)
(***************************************************************************)
COCOFS_DIRENT_TYPE_BASIC == 0
COCOFS_DIRENT_TYPE_DATA == 1
COCOFS_DIRENT_TYPE_CODE == 2
COCOFS_DIRENT_TYPE_TEXT == 3
COCOFS_DIRENT_TYPE_FREE == 255
COCOFS_DIRENT_ENC_BINARY == 0
COCOFS_DIRENT_ENC_ASCII == 255
COCOFS_DIR_TRACK_FIRST_SEC == 3
COCOFS_DIR_TRACK_NSEC == 9
SizeofDirent == 8 + 3 + 1 + 1 + 1 + 2 + 16
COCOFS_DIR_TRACK_NENTRIES ==
    (COCOFS_DIR_TRACK_NSEC * COCOFS_BYTES_PER_SEC) \div SizeofDirent

Fill(b, n) == [i \in 1..n |-> b]

\* struct cocofs_dirent with every byte set to b: memset(dir, b, sizeof(*dir)).
MemsetDirent(b) ==
    [d_name |-> Fill(b, 8), d_ext |-> Fill(b, 3), d_type |-> b,
     d_encoding |-> b, d_first_granule |-> b, d_last_bytes |-> Fill(b, 2),
     d_unused |-> Fill(b, 16)]

cocofs_dir_lastbytes(lastbytes) == lastbytes[1] * 256 + lastbytes[2]

\* The count stored low byte first.
cocofs_dir_set_lastbytes_le(cnt) == << cnt % 256, (cnt \div 256) % 256 >>

cocofs_dir_set_lastbytes(cnt) == << (cnt \div 256) % 256, cnt % 256 >>

(***************************************************************************)
(* Byte buffers as run lists.                                              *)
(***************************************************************************)
\* Host files: file f holds FileLen(f) bytes, byte p being FileByte(f, p).
FileByte(f, p) == (f * 37 + p * 11 + (p \div 256) * 3) % 256

FillSeg(b, n) == [kind |-> "fill", val |-> b, off |-> 0, len |-> n]
FileSeg(f, o, n) == [kind |-> "file", val |-> f, off |-> o, len |-> n]

SegByte(s, i) == IF s.kind = "fill" THEN s.val ELSE FileByte(s.val, s.off + i)

RECURSIVE BufLen(_)
BufLen(segs) == IF segs = <<>> THEN 0 ELSE Head(segs).len + BufLen(Tail(segs))

RECURSIVE BufByte(_, _)
BufByte(segs, i) ==
    IF i < Head(segs).len THEN SegByte(Head(segs), i)
    ELSE BufByte(Tail(segs), i - Head(segs).len)

RECURSIVE BufTake(_, _)
BufTake(segs, n) ==
    IF n <= 0 \/ segs = <<>> THEN <<>>
    ELSE LET s == Head(segs)
         IN  IF s.len <= n THEN <<s>> \o BufTake(Tail(segs), n - s.len)
             ELSE << [s EXCEPT !.len = n] >>

RECURSIVE BufDrop(_, _)
BufDrop(segs, n) ==
    IF n <= 0 \/ segs = <<>> THEN segs
    ELSE LET s == Head(segs)
         IN  IF s.len <= n THEN BufDrop(Tail(segs), n - s.len)
             ELSE << [s EXCEPT !.len = s.len - n,
                               !.off = IF s.kind = "file" THEN s.off + n ELSE 0] >>
                  \o Tail(segs)

SegJoins(a, b) ==
    /\ a.kind = b.kind
    /\ a.val = b.val
    /\ (a.kind = "file" => b.off = a.off + a.len)

RECURSIVE RunNorm(_)
RunNorm(segs) ==
    IF Len(segs) <= 1 THEN segs
    ELSE LET a == segs[1]
             b == segs[2]
         IN  IF a.len = 0 THEN RunNorm(Tail(segs))
             ELSE IF b.len = 0 THEN RunNorm(<<a>> \o Tail(Tail(segs)))
             ELSE IF SegJoins(a, b)
                  THEN RunNorm(<< [a EXCEPT !.len = a.len + b.len] >> \o Tail(Tail(segs)))
                  ELSE <<a>> \o RunNorm(Tail(segs))

\* Overwrite the bytes [start, start + seg.len) of a buffer.
BufWrite(segs, start, seg) ==
    IF seg.len = 0 THEN segs
    ELSE RunNorm(BufTake(segs, start) \o <<seg>> \o BufDrop(segs, start + seg.len))

\* memset(&buf[start], b, n)
BufMemset(segs, start, b, n) == BufWrite(segs, start, FillSeg(b, n))

\* Two buffers hold the same bytes.
SameBytes(a, b) ==
    \/ a = b
    \/ /\ BufLen(a) = BufLen(b)
       /\ \A i \in 0..(BufLen(a) - 1) : BufByte(a, i) = BufByte(b, i)

(***************************************************************************)
(* The environment: host files to copy in, operands, and backing images.   *)
(***************************************************************************)
\* Lengths of the host files 1..Len(FileLens): empty, exactly one granule
\* (its last sector full), one granule plus one byte, the 5000-byte example
\* (three granules), and one byte more than the whole disk holds.
FileLens ==
    << 0, COCOFS_BYTES_PER_GRANULE, COCOFS_BYTES_PER_GRANULE + 1, 5000,
       COCOFS_NGRANULES * COCOFS_BYTES_PER_GRANULE + 1 >>

HostFiles == 1..Len(FileLens)
FileLen(f) == FileLens[f]

Pad(s, n) == s \o Fill(32, n - Len(s))

\* What the operands of copyin, ArgTEST and ArgHELLO below, parse to:
\* TEST.DAT (Data, Binary) and HELLO.C (Data, ASCII).
OpTEST ==
    [name |-> Pad(<<84, 69, 83, 84>>, 8), ext |-> <<68, 65, 84>>,
     type |-> COCOFS_DIRENT_TYPE_DATA, enc |-> COCOFS_DIRENT_ENC_BINARY]
OpHELLO ==
    [name |-> Pad(<<72, 69, 76, 76, 79>>, 8), ext |-> Pad(<<67>>, 3),
     type |-> COCOFS_DIRENT_TYPE_DATA, enc |-> COCOFS_DIRENT_ENC_ASCII]

\* Names found in the damaged backing image below.
NmCYC == [name |-> Pad(<<67, 89, 67>>, 8), ext |-> Fill(32, 3)]
NmMID == [name |-> Pad(<<77, 73, 68>>, 8), ext |-> Fill(32, 3)]
NmOOR == [name |-> Pad(<<79, 79, 82>>, 8), ext |-> Fill(32, 3)]
NmGOOD == [name |-> Pad(<<71, 79, 79, 68>>, 8), ext |-> Fill(32, 3)]
NmL68 == [name |-> Pad(<<76, 54, 56>>, 8), ext |-> Fill(32, 3)]
NmFRE == [name |-> Pad(<<70, 82, 69>>, 8), ext |-> Fill(32, 3)]

Granules == 0..(COCOFS_NGRANULES - 1)
Slots == 0..(COCOFS_DIR_TRACK_NENTRIES - 1)
\* The byte offsets in the image at which the 68 data granules start.
GranuleOffsets == {cocofs_granule_to_offset(g) : g \in Granules}
\* The granule map sector is COCOFS_BYTES_PER_SEC bytes long; the map proper
\* is its first COCOFS_NGRANULES bytes.
SectorBytes == 0..(COCOFS_BYTES_PER_SEC - 1)

\* An image whose every byte is b.
UniformImage(b) ==
    [image_data |-> [o \in GranuleOffsets |-> <<FillSeg(b, COCOFS_BYTES_PER_GRANULE)>>],
     granule_map |-> [i \in SectorBytes |-> b],
     directory |-> [i \in Slots |-> MemsetDirent(b)]]

MkDirent(nm, type, first, lastbytes) ==
    [MemsetDirent(255) EXCEPT !.d_name = nm.name, !.d_ext = nm.ext,
                              !.d_type = type, !.d_encoding = 0,
                              !.d_first_granule = first,
                              !.d_last_bytes = cocofs_dir_set_lastbytes(lastbytes)]

\* A damaged image: a formatted disk on which
\*   slot 0 CYC   chain 10 -> 11 -> 10 (a cycle of links),
\*   slot 1 MID   chain 20 -> 21, entry 21 holding the invalid byte 0x80,
\*   slot 2 OOR   first granule 200 (out of range),
\*   slot 3 GOOD  a well-formed 5-byte file in granule 30,
\*   slot 4       free (type 0xff) but still holding an old name,
\*   slot 5 L68   chain 40 -> 68 (a link to index 68),
\*   slot 6 FRE   chain 50 -> 51, entry 51 being free.
DamagedImage ==
    LET base == UniformImage(255)
    IN  [base EXCEPT
           !.granule_map = [i \in SectorBytes |->
               CASE i = 10 -> 11 [] i = 11 -> 10
                 [] i = 20 -> 21 [] i = 21 -> 128
                 [] i = 30 -> GMAP_LAST + 1
                 [] i = 40 -> 68
                 [] i = 50 -> 51
                 [] OTHER -> 255],
           !.directory = [i \in Slots |->
               CASE i = 0 -> MkDirent(NmCYC, 1, 10, 256)
                 [] i = 1 -> MkDirent(NmMID, 1, 20, 256)
                 [] i = 2 -> MkDirent(NmOOR, 1, 200, 256)
                 [] i = 3 -> MkDirent(NmGOOD, 1, 30, 5)
                 [] i = 4 -> [MemsetDirent(255) EXCEPT !.d_name = Pad(<<79, 76, 68>>, 8)]
                 [] i = 5 -> MkDirent(NmL68, 1, 40, 256)
                 [] i = 6 -> MkDirent(NmFRE, 1, 50, 256)
                 [] OTHER -> MemsetDirent(255)]]

\* What cocofs_pread() leaves in the zeroed buffer: "empty" is a backing file
\* of length 0 (a short read, only warned about), "damaged" the image above.
BackingImages == {"empty", "damaged"}
BackingImage(id) == IF id = "empty" THEN UniformImage(0) ELSE DamagedImage

(***************************************************************************)
(* The file system operations, as functions of a record                    *)
(*   [image_data, granule_map, directory, free_granules]                   *)
(* standing for struct cocofs (cocofs.c 252-258).                          *)
(***************************************************************************)
\* cocofs_alloc(): a zeroed image; calloc() leaves free_granules at 0.
cocofs_alloc ==
    [image_data |-> UniformImage(0).image_data,
     granule_map |-> UniformImage(0).granule_map,
     directory |-> UniformImage(0).directory,
     free_granules |-> 0]

\* cocofs_format(): memset(image_data, 0xff, COCOFS_TOTALSIZE).
cocofs_format ==
    [image_data |-> UniformImage(255).image_data,
     granule_map |-> UniformImage(255).granule_map,
     directory |-> UniformImage(255).directory,
     free_granules |-> COCOFS_NGRANULES]

\* Drops the count altogether (a load that forgets to scan the map).
cocofs_load_count_noscan(gmap) == 0

\* The counting loop of cocofs_load(), starting from calloc()'s 0.
cocofs_load_count(gmap) ==
    Cardinality({i \in Granules : gmap[i] = GMAP_FREE})

\* cocofs_load(): the image as read, then the count of free map entries.
cocofs_load(img) ==
    [image_data |-> img.image_data,
     granule_map |-> img.granule_map,
     directory |-> img.directory,
     free_granules |-> cocofs_load_count(img.granule_map)]

\* The value of i after the loop of cocofs_lookup_raw(): the first slot that
\* is not free and matches, or COCOFS_DIR_TRACK_NENTRIES (NULL is returned).
NoDir == COCOFS_DIR_TRACK_NENTRIES

SetMin(S) == CHOOSE x \in S : \A y \in S : x <= y

\* A lookup that finds nothing.
cocofs_lookup_raw_nomatch(dirs, name, ext) == NoDir

cocofs_lookup_raw(dirs, name, ext) ==
    LET m == {i \in Slots : /\ dirs[i].d_type # COCOFS_DIRENT_TYPE_FREE
                            /\ dirs[i].d_name = name
                            /\ dirs[i].d_ext = ext}
    IN  IF m = {} THEN NoDir ELSE SetMin(m)

(***************************************************************************)
(* Bounds of the model: successful adds and removes on an image the tool   *)
(* formatted and on a loaded backing image, and the passes a loop without  *)
(* a working bound of its own is followed for.                             *)
(***************************************************************************)
MaxOps == 4
MaxLoadOps == 2
MaxWalk == 72

(***************************************************************************)
(* Loops.  A C loop is its body applied to the loop's locals until it      *)
(* leaves (done); Iterate applies Body at most n times, halving n so that  *)
(* the evaluation nests only log n deep.                                   *)
(***************************************************************************)
RECURSIVE Iterate(_, _, _)
Iterate(Body(_), n, s) ==
    IF s.done \/ n <= 0 THEN s
    ELSE IF n = 1 THEN Body(s)
    ELSE Iterate(Body, n - n \div 2, Iterate(Body, n \div 2, s))

(***************************************************************************)
(* Names (cocofs.c 271-307, 314-380, 412-532).  A C string is the sequence *)
(* of its character codes without the terminating NUL: '.' is 46, '/' 47,  *)
(* ',' 44, '[' 91, ']' 93, 'A' 65, 'a' 97, 'z' 122.                        *)
(***************************************************************************)
\* A mapping that leaves every character as it is.
cocofs_mapchar_plain(c) == c

\* cocofs_mapchar (271-278).
cocofs_mapchar(c) == IF c >= 97 /\ c <= 122 THEN 65 + (c - 97) ELSE c

\* One pass of the first loop of cocofs_conv_name (288-297); full[p] is the
\* code's *full, and p beyond the string stands for the NUL.
conv_name_body(s) ==
    IF s.p > Len(s.full) THEN [s EXCEPT !.done = TRUE]
    ELSE IF s.full[s.p] = 46 THEN [s EXCEPT !.p = s.p + 1, !.done = TRUE]
    ELSE IF s.i = 8 THEN [s EXCEPT !.ok = FALSE, !.done = TRUE]
    ELSE [s EXCEPT !.name[s.i + 1] = cocofs_mapchar(s.full[s.p]),
                   !.i = s.i + 1, !.p = s.p + 1]

\* One pass of its second loop (299-304).
conv_ext_body(s) ==
    IF s.p > Len(s.full) THEN [s EXCEPT !.done = TRUE]
    ELSE IF s.i = 3 THEN [s EXCEPT !.ok = FALSE, !.done = TRUE]
    ELSE [s EXCEPT !.ext[s.i + 1] = cocofs_mapchar(s.full[s.p]),
                   !.i = s.i + 1, !.p = s.p + 1]

\* cocofs_conv_name (280-307): ok is the value returned, name and ext the
\* caller's buffers as the call leaves them.
cocofs_conv_name(full) ==
    LET a == Iterate(conv_name_body, Len(full) + 1,
                     [full |-> full, p |-> 1, i |-> 0, name |-> Fill(32, 8),
                      ext |-> Fill(32, 3), ok |-> TRUE, done |-> FALSE])
        b == Iterate(conv_ext_body, Len(full) + 1,
                     [a EXCEPT !.i = 0, !.done = FALSE])
    IN  IF a.ok THEN [ok |-> b.ok, name |-> b.name, ext |-> b.ext]
        ELSE [ok |-> FALSE, name |-> a.name, ext |-> a.ext]

\* cocofs_lookup (700-709): NULL when the name does not convert.
cocofs_lookup(dirs, full) ==
    LET nm == cocofs_conv_name(full)
    IN  IF nm.ok THEN cocofs_lookup_raw(dirs, nm.name, nm.ext) ELSE NoDir

\* strcasecmp(a, b) == 0.
strcasecmp_eq(a, b) ==
    /\ Len(a) = Len(b)
    /\ \A i \in 1..Len(a) : cocofs_mapchar(a[i]) = cocofs_mapchar(b[i])

\* str2val_lookup_str (329-339): the index of the first entry whose string
\* matches, 0 for NULL.
str2val_lookup_str(tab, str) ==
    LET m == {i \in 1..Len(tab) : strcasecmp_eq(tab[i].str, str)}
    IN  IF m = {} THEN 0 ELSE SetMin(m)

\* The tables at 341-380: ASM, BAS, BIN, DAT, TXT, C, H; Basic, Data, Code,
\* Text; Binary, ASCII.
cocofs_default_types_and_encodings ==
    << [str |-> <<65, 83, 77>>,
        val |-> COCOFS_DIRENT_TYPE_DATA * 256 + COCOFS_DIRENT_ENC_ASCII],
       [str |-> <<66, 65, 83>>,
        val |-> COCOFS_DIRENT_TYPE_BASIC * 256 + COCOFS_DIRENT_ENC_BINARY],
       [str |-> <<66, 73, 78>>,
        val |-> COCOFS_DIRENT_TYPE_CODE * 256 + COCOFS_DIRENT_ENC_BINARY],
       [str |-> <<68, 65, 84>>,
        val |-> COCOFS_DIRENT_TYPE_DATA * 256 + COCOFS_DIRENT_ENC_BINARY],
       [str |-> <<84, 88, 84>>,
        val |-> COCOFS_DIRENT_TYPE_TEXT * 256 + COCOFS_DIRENT_ENC_ASCII],
       [str |-> <<67>>,
        val |-> COCOFS_DIRENT_TYPE_DATA * 256 + COCOFS_DIRENT_ENC_ASCII],
       [str |-> <<72>>,
        val |-> COCOFS_DIRENT_TYPE_DATA * 256 + COCOFS_DIRENT_ENC_ASCII] >>

cocofs_dir_types ==
    << [str |-> <<66, 97, 115, 105, 99>>, val |-> COCOFS_DIRENT_TYPE_BASIC],
       [str |-> <<68, 97, 116, 97>>, val |-> COCOFS_DIRENT_TYPE_DATA],
       [str |-> <<67, 111, 100, 101>>, val |-> COCOFS_DIRENT_TYPE_CODE],
       [str |-> <<84, 101, 120, 116>>, val |-> COCOFS_DIRENT_TYPE_TEXT] >>

cocofs_dir_encodings ==
    << [str |-> <<66, 105, 110, 97, 114, 121>>, val |-> COCOFS_DIRENT_ENC_BINARY],
       [str |-> <<65, 83, 67, 73, 73>>, val |-> COCOFS_DIRENT_ENC_ASCII] >>

\* cocofs_default_type_and_encoding (412-428).
cocofs_default_type_and_encoding(ext) ==
    LET t == str2val_lookup_str(cocofs_default_types_and_encodings, ext)
    IN  IF t # 0
        THEN [type |-> cocofs_default_types_and_encodings[t].val \div 256,
              enc |-> cocofs_default_types_and_encodings[t].val % 256]
        ELSE [type |-> COCOFS_DIRENT_TYPE_DATA, enc |-> COCOFS_DIRENT_ENC_BINARY]

SetMax(S) == CHOOSE x \in S : \A y \in S : x >= y

\* strchr and strrchr: the position of the first and of the last c in s, 0
\* for NULL.
strchr(s, c) ==
    LET m == {i \in 1..Len(s) : s[i] = c} IN IF m = {} THEN 0 ELSE SetMin(m)
strrchr(s, c) ==
    LET m == {i \in 1..Len(s) : s[i] = c} IN IF m = {} THEN 0 ELSE SetMax(m)

\* One pass of the loop over the qualifiers in cocofs_parse_fname (474-501).
parse_qual(st, q) ==
    LET t == str2val_lookup_str(cocofs_dir_types, q)
        e == str2val_lookup_str(cocofs_dir_encodings, q)
    IN  IF ~st.ok THEN st
        ELSE IF t # 0
        THEN (IF st.have_type THEN [st EXCEPT !.ok = FALSE]
              ELSE [st EXCEPT !.type = cocofs_dir_types[t].val,
                              !.have_type = TRUE])
        ELSE IF e # 0
        THEN (IF st.have_enc THEN [st EXCEPT !.ok = FALSE]
              ELSE [st EXCEPT !.enc = cocofs_dir_encodings[e].val,
                              !.have_enc = TRUE])
        ELSE [st EXCEPT !.ok = FALSE]

\* cocofs_parse_fname (430-532).  open is where the qualifiers' '[' is: the
\* last one that is not the first character, when the string ends in ']'
\* (an empty string has no last character; whatever byte the code reads
\* before it, the loop at 448 does not run and no qualifier is seen).
cocofs_parse_fname(fname) ==
    LET n == Len(fname)
        brk == {i \in 2..n : fname[i] = 91}
        open == IF n > 0 /\ fname[n] = 93 /\ brk # {} THEN SetMax(brk) ELSE 0
        base == IF open # 0 THEN SubSeq(fname, 1, open - 1) ELSE fname
        quals == IF open # 0 THEN SubSeq(fname, open + 1, n - 1) ELSE <<>>
        comma == strchr(quals, 44)
        qual1 == IF comma # 0 THEN SubSeq(quals, 1, comma - 1) ELSE quals
        qual2 == SubSeq(quals, comma + 1, Len(quals))
        st0 == [ok |-> TRUE, have_type |-> FALSE, have_enc |-> FALSE,
                type |-> COCOFS_DIRENT_TYPE_DATA,
                enc |-> COCOFS_DIRENT_ENC_BINARY]
        st1 == IF open # 0 THEN parse_qual(st0, qual1) ELSE st0
        st2 == IF open # 0 /\ comma # 0 THEN parse_qual(st1, qual2) ELSE st1
        slash == strrchr(base, 47)
        comp == SubSeq(base, slash + 1, Len(base))
        nm == cocofs_conv_name(comp)
        dot == strchr(comp, 46)
        dflt == cocofs_default_type_and_encoding(SubSeq(comp, dot + 1, Len(comp)))
        guess == ~st2.have_type /\ ~st2.have_enc /\ dot # 0
    IN  [ok |-> st2.ok /\ nm.ok, name |-> nm.name, ext |-> nm.ext,
         type |-> IF guess THEN dflt.type ELSE st2.type,
         enc |-> IF guess THEN dflt.enc ELSE st2.enc]

\* Operands of copyin as typed: "test.dat[data,binary]", "src/hello.c",
\* "longfilename.txt" (no name of the file system) and "test.dat[text,text]"
\* (two types).
ArgTEST ==
    << 116, 101, 115, 116, 46, 100, 97, 116, 91, 100, 97, 116, 97, 44,
       98, 105, 110, 97, 114, 121, 93 >>
ArgHELLO == << 115, 114, 99, 47, 104, 101, 108, 108, 111, 46, 99 >>
ArgLONG ==
    << 108, 111, 110, 103, 102, 105, 108, 101, 110, 97, 109, 101, 46,
       116, 120, 116 >>
ArgTWICE ==
    << 116, 101, 115, 116, 46, 100, 97, 116, 91, 116, 101, 120, 116, 44,
       116, 101, 120, 116, 93 >>
CopyInArgs == {ArgTEST, ArgHELLO, ArgLONG, ArgTWICE}

\* Operands of ls, rm and copyout as typed: on an image the tool built
\* "test.dat", "hello.c", "good" and "longfilename.txt"; on a loaded backing
\* image "cyc", "mid", "oor", "good", "l68", "fre" and "test.dat".
LookupArgs(org) ==
    IF org = "format"
    THEN {<< 116, 101, 115, 116, 46, 100, 97, 116 >>,
          << 104, 101, 108, 108, 111, 46, 99 >>,
          << 103, 111, 111, 100 >>, ArgLONG}
    ELSE {<< 99, 121, 99 >>, << 109, 105, 100 >>, << 111, 111, 114 >>,
          << 103, 111, 111, 100 >>, << 108, 54, 56 >>, << 102, 114, 101 >>,
          << 116, 101, 115, 116, 46, 100, 97, 116 >>}

(***************************************************************************)
(* cocofs_stat (cocofs.c 711-767).                                         *)
(***************************************************************************)
\* One pass of the for loop at 720-735.  g is a uint8_t and indexes the map
\* unchecked, so it may read any byte of the map's sector; `reads` collects
\* the indexes read, `steps` counts the passes through the body.
stat_body(s) ==
    IF s.loopcnt > COCOFS_NGRANULES THEN [s EXCEPT !.done = TRUE]
    ELSE LET gn == s.gmap[s.g]
             t == [s EXCEPT !.reads = s.reads \cup {s.g}, !.steps = s.steps + 1]
         IN  IF ~gmap_entry_is_valid(gn) \/ gn = GMAP_FREE
             THEN [t EXCEPT !.done = TRUE]
             ELSE IF GMAP_IS_LAST(gn)
             THEN [t EXCEPT !.last_nsec = GMAP_LAST_NSEC(gn), !.done = TRUE]
             ELSE [t EXCEPT !.size = s.size + COCOFS_SEC_PER_GRANULE * COCOFS_BYTES_PER_SEC,
                            !.loopcnt = s.loopcnt + 1,
                            !.g = gn]

RECURSIVE RStrip(_)
RStrip(s) ==
    IF s # <<>> /\ s[Len(s)] = 32 THEN RStrip(SubSeq(s, 1, Len(s) - 1)) ELSE s

\* The struct cocofs_stat filled in, with what the function reports besides
\* (diag: the diagnostics it prints; it prints none).
cocofs_stat(gmap, dir) ==
    LET w == Iterate(stat_body, COCOFS_NGRANULES + 2,
                     [gmap |-> gmap, g |-> dir.d_first_granule, loopcnt |-> 0,
                      size |-> 0, last_nsec |-> 0, reads |-> {}, steps |-> 0,
                      done |-> FALSE])
        lb == cocofs_dir_lastbytes(dir.d_last_bytes)
        lastsec_bytes == IF lb > COCOFS_BYTES_PER_SEC THEN COCOFS_BYTES_PER_SEC ELSE lb
        size == IF w.last_nsec # 0
                THEN w.size + w.last_nsec * COCOFS_BYTES_PER_SEC
                       - (COCOFS_BYTES_PER_SEC - lastsec_bytes)
                ELSE w.size
    IN  [st_size |-> size,
         st_name |-> RStrip(dir.d_name),
         st_ext |-> RStrip(dir.d_ext),
         st_type |-> dir.d_type,
         st_encoding |-> dir.d_encoding,
         returned |-> w.done,
         steps |-> w.steps,
         reads |-> w.reads,
         diag |-> {}]

(***************************************************************************)
(* cocofs_rm (cocofs.c 872-905).                                           *)
(***************************************************************************)
\* A pass that frees the granule without counting it.
rm_body_nocount(s) ==
    IF s.g >= COCOFS_NGRANULES THEN [s EXCEPT !.done = TRUE, !.ok = FALSE]
    ELSE LET gn == s.gmap[s.g]
         IN  IF ~gmap_entry_is_valid(gn) \/ gn = GMAP_FREE
             THEN [s EXCEPT !.done = TRUE, !.ok = FALSE]
             ELSE LET t == [s EXCEPT !.gmap[s.g] = GMAP_FREE]
                  IN  IF GMAP_IS_LAST(gn) THEN [t EXCEPT !.done = TRUE, !.ok = TRUE]
                      ELSE [t EXCEPT !.g = gn, !.gi = s.gi + 1]

\* A pass that leaves the visited granule's map entry as it is.
rm_body_nofree(s) ==
    IF s.g >= COCOFS_NGRANULES THEN [s EXCEPT !.done = TRUE, !.ok = FALSE]
    ELSE LET gn == s.gmap[s.g]
         IN  IF ~gmap_entry_is_valid(gn) \/ gn = GMAP_FREE
             THEN [s EXCEPT !.done = TRUE, !.ok = FALSE]
             ELSE LET t == [s EXCEPT !.free = s.free + 1]
                  IN  IF GMAP_IS_LAST(gn) THEN [t EXCEPT !.done = TRUE, !.ok = TRUE]
                      ELSE [t EXCEPT !.g = gn, !.gi = s.gi + 1]

\* One pass of the for loop at 878-900: the granule is freed as it is visited.
rm_body(s) ==
    IF s.g >= COCOFS_NGRANULES THEN [s EXCEPT !.done = TRUE, !.ok = FALSE]
    ELSE LET gn == s.gmap[s.g]
         IN  IF ~gmap_entry_is_valid(gn) \/ gn = GMAP_FREE
             THEN [s EXCEPT !.done = TRUE, !.ok = FALSE]
             ELSE LET t == [s EXCEPT !.gmap[s.g] = GMAP_FREE, !.free = s.free + 1]
                  IN  IF GMAP_IS_LAST(gn) THEN [t EXCEPT !.done = TRUE, !.ok = TRUE]
                      ELSE [t EXCEPT !.g = gn, !.gi = s.gi + 1]

\* A remove that marks the slot free by its type byte alone.
cocofs_rm_typeonly(fs, di) ==
    LET w == Iterate(rm_body, MaxWalk,
                     [gmap |-> fs.granule_map, free |-> fs.free_granules,
                      g |-> fs.directory[di].d_first_granule, gi |-> 0,
                      ok |-> FALSE, done |-> FALSE])
    IN  [fs |-> [fs EXCEPT !.granule_map = w.gmap,
                           !.free_granules = w.free,
                           !.directory =
                               IF w.ok
                               THEN [fs.directory EXCEPT
                                       ![di].d_type = COCOFS_DIRENT_TYPE_FREE]
                               ELSE fs.directory],
         ok |-> w.ok,
         returned |-> w.done,
         steps |-> w.gi + 1]

\* The loop has no bound of its own; MaxWalk passes are run, and `returned`
\* tells whether it left within them.
cocofs_rm(fs, di) ==
    LET w == Iterate(rm_body, MaxWalk,
                     [gmap |-> fs.granule_map, free |-> fs.free_granules,
                      g |-> fs.directory[di].d_first_granule, gi |-> 0,
                      ok |-> FALSE, done |-> FALSE])
    IN  [fs |-> [fs EXCEPT !.granule_map = w.gmap,
                           !.free_granules = w.free,
                           !.directory = IF w.ok
                                         THEN [fs.directory EXCEPT ![di] = MemsetDirent(255)]
                                         ELSE fs.directory],
         ok |-> w.ok,
         returned |-> w.done,
         steps |-> w.gi + 1]

(***************************************************************************)
(* cocofs_galloc (cocofs.c 993-1012).                                      *)
(***************************************************************************)
\* A pass that takes the granule whatever its map entry says.
galloc_body_nocheck(s) == [s EXCEPT !.found = TRUE, !.done = TRUE]

\* A pass that moves on downwards, from 0 to 67.
galloc_body_back(s) ==
    IF s.loopcnt > COCOFS_NGRANULES THEN [s EXCEPT !.done = TRUE]
    ELSE IF s.gmap[s.g] = GMAP_FREE THEN [s EXCEPT !.found = TRUE, !.done = TRUE]
    ELSE [s EXCEPT !.g = IF s.g = 0 THEN COCOFS_NGRANULES - 1 ELSE s.g - 1,
                   !.loopcnt = s.loopcnt + 1]

\* One pass of the for loop at 998-1009.
galloc_body(s) ==
    IF s.loopcnt > COCOFS_NGRANULES THEN [s EXCEPT !.done = TRUE]
    ELSE IF s.gmap[s.g] = GMAP_FREE THEN [s EXCEPT !.found = TRUE, !.done = TRUE]
    ELSE [s EXCEPT !.g = IF s.g + 1 = COCOFS_NGRANULES THEN 0 ELSE s.g + 1,
                   !.loopcnt = s.loopcnt + 1]

\* aborted: the loop ran out and abort() was called.
cocofs_galloc(gmap, free, last) ==
    LET w == Iterate(galloc_body, COCOFS_NGRANULES + 2,
                     [gmap |-> gmap, g |-> last, loopcnt |-> 0, found |-> FALSE,
                      done |-> FALSE])
    IN  IF w.found
        THEN [g |-> w.g, granule_map |-> [gmap EXCEPT ![w.g] = GMAP_ALLOCATED],
              free_granules |-> free - 1, aborted |-> FALSE]
        ELSE [g |-> w.g, granule_map |-> gmap, free_granules |-> free, aborted |-> TRUE]

(***************************************************************************)
(* cocofs_copyin (cocofs.c 1014-1178).                                     *)
(*                                                                         *)
(* The host side is an input: the file f and a fault fm,                   *)
(*   [kind |-> "none"]                 every call succeeds,                *)
(*   [kind |-> "open"], "fstat"        that call fails,                    *)
(*   [kind |-> "read", gi, rv]         the read for granule gi returns rv, *)
(*                                     -1 or one byte (a short read).      *)
(***************************************************************************)
NoFault == [kind |-> "none", gi |-> 0, rv |-> 0]

GranulesNeeded(len) ==
    len \div COCOFS_BYTES_PER_GRANULE
        + (IF len % COCOFS_BYTES_PER_GRANULE # 0 THEN 1 ELSE 0)

CurSz(resid) ==
    IF resid > COCOFS_BYTES_PER_GRANULE THEN COCOFS_BYTES_PER_GRANULE ELSE resid

Faults(f) ==
    {NoFault, [kind |-> "open", gi |-> 0, rv |-> 0], [kind |-> "fstat", gi |-> 0, rv |-> 0]}
        \cup (IF GranulesNeeded(FileLen(f)) > COCOFS_NGRANULES THEN {}
              ELSE {[kind |-> "read", gi |-> gi, rv |-> rv] :
                       gi \in 0..(GranulesNeeded(FileLen(f)) - 1), rv \in {-1, 1}})

\* A capacity check that lets every file through.
copyin_nospc_never(len, free) == FALSE

\* The capacity check (1053-1058): sb.st_size > free_granules * 2304.
copyin_nospc(len, free) == len > free * COCOFS_BYTES_PER_GRANULE

\* One pass of the allocation loop (1091-1096): glist as a sequence,
\* glist[gi + 1] being the code's glist[gi].
copyin_alloc_body(s) ==
    IF s.gi >= s.needed THEN [s EXCEPT !.done = TRUE]
    ELSE LET a == cocofs_galloc(s.gmap, s.free, s.last)
         IN  IF a.aborted THEN [s EXCEPT !.aborted = TRUE, !.done = TRUE]
             ELSE [s EXCEPT !.gmap = a.granule_map, !.free = a.free_granules,
                            !.last = a.g, !.gi = s.gi + 1,
                            !.glist = Append(s.glist, a.g)]

\* The bytes used in the last sector, without the "0 means a full sector" fix.
copyin_lastbytes_nofix(resid) == resid % COCOFS_BYTES_PER_SEC

\* lastbytes (1136-1139).
copyin_lastbytes(resid) ==
    IF resid % COCOFS_BYTES_PER_SEC = 0 THEN COCOFS_BYTES_PER_SEC
    ELSE resid % COCOFS_BYTES_PER_SEC

\* The sectors of the last granule, a partly used one left out.
copyin_nsec_floor(resid) == resid \div COCOFS_BYTES_PER_SEC

\* nsec (1128-1131).
copyin_nsec(resid) ==
    resid \div COCOFS_BYTES_PER_SEC
        + (IF resid % COCOFS_BYTES_PER_SEC # 0 THEN 1 ELSE 0)

\* What the read for granule gi returns: the fault's rv (cut to one less
\* than asked for when it would not be short), else all cursz bytes.
ReadResult(fm, gi, cursz) ==
    IF fm.kind = "read" /\ fm.gi = gi
    THEN (IF fm.rv >= cursz THEN cursz - 1 ELSE fm.rv)
    ELSE cursz

\* The assertions of one pass of the copy loop (1116, 1132-1133, 1160).
copyin_asserts(s) ==
    /\ s.gi < Len(s.glist)
    /\ s.glist[s.gi + 1] < COCOFS_NGRANULES
    /\ s.granule_map[s.glist[s.gi + 1]] = GMAP_ALLOCATED
    /\ IF s.resid <= COCOFS_BYTES_PER_GRANULE
       THEN s.gi + 1 = s.needed /\ copyin_nsec(s.resid) <= COCOFS_SEC_PER_GRANULE
       ELSE s.gi + 1 < s.needed

\* One pass of the copy loop (1106-1163).  A failed read has already stored
\* the bytes it did read in the image; a failed assertion ends the process.
copyin_copy_body(s) ==
    IF s.resid = 0 THEN [s EXCEPT !.done = TRUE, !.ok = TRUE]
    ELSE IF ~copyin_asserts(s) THEN [s EXCEPT !.done = TRUE, !.aborted = TRUE]
    ELSE LET cursz == CurSz(s.resid)
             g == s.glist[s.gi + 1]
             off == cocofs_granule_to_offset(g)
             rv == ReadResult(s.fm, s.gi, cursz)
             nread == IF rv < 0 THEN 0 ELSE rv
             buf == BufWrite(s.image_data[off], 0,
                             FileSeg(s.f, s.gi * COCOFS_BYTES_PER_GRANULE, nread))
         IN  IF rv # cursz
             THEN [s EXCEPT !.image_data[off] = buf, !.done = TRUE, !.ok = FALSE]
             ELSE IF s.resid <= COCOFS_BYTES_PER_GRANULE
             THEN LET trailing == COCOFS_BYTES_PER_GRANULE - s.resid
                      zbuf == IF trailing # 0 THEN BufMemset(buf, s.resid, 0, trailing)
                              ELSE buf
                      dir == [s.directory[s.di] EXCEPT
                                !.d_name = s.op.name, !.d_ext = s.op.ext,
                                !.d_type = s.op.type, !.d_encoding = s.op.enc,
                                !.d_first_granule = s.glist[1],
                                !.d_last_bytes =
                                    cocofs_dir_set_lastbytes(copyin_lastbytes(s.resid))]
                  IN  [s EXCEPT !.image_data[off] = zbuf,
                                !.granule_map[g] = GMAP_LAST + copyin_nsec(s.resid),
                                !.directory[s.di] = dir,
                                !.gi = s.gi + 1,
                                !.resid = s.resid - cursz]
             ELSE [s EXCEPT !.image_data[off] = buf,
                            !.granule_map[g] = s.glist[s.gi + 2],
                            !.gi = s.gi + 1,
                            !.resid = s.resid - cursz]

\* An exit that gives back neither the granule map nor the counter.
copyin_bad_norollback(fs, st, di, why) ==
    [fs |-> [image_data |-> st.image_data,
             granule_map |-> st.granule_map,
             directory |-> st.directory,
             free_granules |-> Cardinality({g \in Granules :
                                               st.granule_map[g] = GMAP_FREE})],
     ok |-> FALSE, aborted |-> FALSE, why |-> why, di |-> di, glist |-> <<>>]

\* The "bad:" exit (1169-1177); di = NoDir stands for dir == NULL.  st holds
\* the image, map and directory as they are on arrival.
copyin_bad(fs, st, di, why) ==
    [fs |-> [image_data |-> st.image_data,
             granule_map |-> [i \in SectorBytes |->
                                 IF i < COCOFS_NGRANULES THEN fs.granule_map[i]
                                 ELSE st.granule_map[i]],
             directory |-> IF di # NoDir
                           THEN [st.directory EXCEPT ![di] = MemsetDirent(255)]
                           ELSE st.directory,
             free_granules |-> fs.free_granules],
     ok |-> FALSE, aborted |-> FALSE, why |-> why, di |-> di, glist |-> <<>>]

\* A search that takes the first slot, free or not.
FirstFreeSlot_first(dirs) == 0

\* The value of i after the loop at 1069-1074.
FirstFreeSlot(dirs) ==
    LET m == {i \in Slots : dirs[i].d_type = COCOFS_DIRENT_TYPE_FREE}
    IN  IF m = {} THEN NoDir ELSE SetMin(m)

cocofs_copyin(fs, f, op, fm) ==
    LET needed == GranulesNeeded(FileLen(f))
        di == FirstFreeSlot(fs.directory)
    IN  IF fm.kind = "open"
        THEN [fs |-> fs, ok |-> FALSE, aborted |-> FALSE, why |-> "open",
              di |-> NoDir, glist |-> <<>>]
        ELSE IF fm.kind = "fstat" THEN copyin_bad(fs, fs, NoDir, "fstat")
        ELSE IF copyin_nospc(FileLen(f), fs.free_granules)
        THEN copyin_bad(fs, fs, NoDir, "nospc")
        ELSE IF needed > fs.free_granules
        THEN [fs |-> fs, ok |-> FALSE, aborted |-> TRUE, why |-> "assert",
              di |-> NoDir, glist |-> <<>>]
        ELSE IF di = NoDir THEN copyin_bad(fs, fs, NoDir, "nodir")
        ELSE LET a == Iterate(copyin_alloc_body, needed + 1,
                              [gmap |-> fs.granule_map, free |-> fs.free_granules,
                               last |-> COCOFS_NGRANULES \div 2, gi |-> 0,
                               needed |-> needed, glist |-> <<>>,
                               aborted |-> FALSE, done |-> FALSE])
             IN  IF a.aborted
                 THEN [fs |-> fs, ok |-> FALSE, aborted |-> TRUE, why |-> "abort",
                       di |-> di, glist |-> a.glist]
                 ELSE LET c == Iterate(copyin_copy_body, needed + 1,
                                       [image_data |-> fs.image_data,
                                        granule_map |-> a.gmap,
                                        directory |-> fs.directory,
                                        f |-> f, op |-> op, fm |-> fm, di |-> di,
                                        glist |-> a.glist, gi |-> 0,
                                        needed |-> needed,
                                        resid |-> FileLen(f),
                                        ok |-> FALSE, aborted |-> FALSE,
                                        done |-> FALSE])
                      IN  IF c.aborted
                          THEN [fs |-> fs, ok |-> FALSE, aborted |-> TRUE,
                                why |-> "assert", di |-> di, glist |-> a.glist]
                          ELSE IF c.ok
                          THEN [fs |-> [image_data |-> c.image_data,
                                        granule_map |-> c.granule_map,
                                        directory |-> c.directory,
                                        free_granules |-> a.free],
                                ok |-> TRUE, aborted |-> FALSE, why |-> "none",
                                di |-> di, glist |-> a.glist]
                          ELSE copyin_bad(fs, c, di, "read")

(***************************************************************************)
(* The process.  main() (1420-1472) opens the image (cocofs_format for the *)
(* format command, cocofs_load otherwise), runs one command over its       *)
(* operands and closes.  A failed cocofs_copyin or cocofs_rm ends the      *)
(* command loop (cmd_copyin 1366-1369, cmd_rm 1285-1288): pc = "exit", and *)
(* nothing follows on that in-memory image.  After an operand that         *)
(* succeeded the image was saved, so the next run of the tool loads the    *)
(* very bytes now in memory: Reopen.                                       *)
(***************************************************************************)
Commands == {"ls", "lsall", "rm", "copyin", "copyout", "dump"}

VARIABLES
    pc,             \* "start", "idle" (between operands), "copyout",
                    \* "scan_dir", "scan_chase", "done", "exit" (the command
                    \* gave up), "closed" (the run is over)
    cmd,            \* the command this run of the tool executes
    origin,         \* "none", "format" or "load": where the image came from
    image_data,     \* fs->image_data, the data granules, by byte offset
    granule_map,    \* fs->granule_map, the bytes of the map's sector
    directory,      \* fs->directory, the 72 slots
    free_granules,  \* fs->free_granules
    made,           \* per slot, the host file copied into it (0: none)
    nops,           \* successful adds and removes so far
    walk,           \* the locals of a running cocofs_copyout or directory scan
    last,           \* what the last operation was and returned
    disk,           \* the image file: what cocofs_save last wrote to it
    retval          \* the exit status of this run so far

vars == << pc, cmd, origin, image_data, granule_map, directory, free_granules,
           made, nops, walk, last, disk, retval >>

FS ==
    [image_data |-> image_data, granule_map |-> granule_map,
     directory |-> directory, free_granules |-> free_granules]

SetFS(fs) ==
    /\ image_data' = fs.image_data
    /\ granule_map' = fs.granule_map
    /\ directory' = fs.directory
    /\ free_granules' = fs.free_granules

NoWalk == [op |-> "none"]

\* The image (struct cocofs 252-258: image_data and the two regions the
\* other pointers point into) as the image file holds it.
ImageOf(fs) ==
    [image_data |-> fs.image_data, granule_map |-> fs.granule_map,
     directory |-> fs.directory]

\* The host side of cocofs_save: pwrite() writes it all, fails having written
\* nothing, or stops short at the end of the directory track.
SaveFaults == {"none", "fail", "short"}

\* A save that writes nothing and reports success.
cocofs_save_skip(fs, old, sf) == [ok |-> TRUE, disk |-> old]

\* cocofs_save (651-663): one cocofs_pwrite of COCOFS_TOTALSIZE bytes at
\* offset 0; anything but a full write is an error.
cocofs_save(fs, old, sf) ==
    CASE sf = "none" -> [ok |-> TRUE, disk |-> ImageOf(fs)]
      [] sf = "fail" -> [ok |-> FALSE, disk |-> old]
      [] sf = "short" ->
            [ok |-> FALSE,
             disk |-> [image_data |->
                           [o \in DOMAIN fs.image_data |->
                               IF o < (COCOFS_DIR_TRACK + 1) * COCOFS_BYTES_PER_TRACK
                               THEN fs.image_data[o] ELSE old.image_data[o]],
                       granule_map |-> fs.granule_map,
                       directory |-> fs.directory]]

\* The saves one operand may meet: cocofs_save runs only after the operation
\* itself returned true.
SaveFaultsOf(ok) == IF ok THEN SaveFaults ELSE {"none"}

Budget == IF origin = "format" THEN MaxOps ELSE MaxLoadOps

Init ==
    /\ pc = "start"
    /\ cmd = "none"
    /\ origin = "none"
    /\ image_data = cocofs_alloc.image_data
    /\ granule_map = cocofs_alloc.granule_map
    /\ directory = cocofs_alloc.directory
    /\ free_granules = cocofs_alloc.free_granules
    /\ made = [i \in Slots |-> 0]
    /\ nops = 0
    /\ walk = NoWalk
    /\ last = [kind |-> "alloc"]
    /\ disk = ImageOf(cocofs_alloc)
    /\ retval = "EXIT_SUCCESS"

\* main() 1456, the O_CREAT branch (open with O_TRUNC empties the file),
\* cmd_format (1228-1239) and the exit at 1471.
Format(sf) ==
    /\ pc = "start"
    /\ SetFS(cocofs_format)
    /\ origin' = "format"
    /\ cmd' = "format"
    /\ LET sv == cocofs_save(cocofs_format, UniformImage(0), sf)
       IN  /\ disk' = sv.disk
           /\ pc' = IF sv.ok THEN "done" ELSE "exit"
           /\ retval' = IF sv.ok THEN "EXIT_SUCCESS" ELSE "EXIT_FAILURE"
           /\ last' = [kind |-> "format", ok |-> sv.ok,
                       why |-> IF sv.ok THEN "none" ELSE "save", saves |-> 1]
    /\ UNCHANGED << made, nops, walk >>

\* main() 1457 on a backing image the tool did not write.
Load(id, c) ==
    /\ pc = "start"
    /\ LET fs == cocofs_load(BackingImage(id)) IN SetFS(fs)
    /\ disk' = BackingImage(id)
    /\ origin' = "load"
    /\ cmd' = c
    /\ pc' = "idle"
    /\ retval' = "EXIT_SUCCESS"
    /\ last' = [kind |-> "load", image |-> id]
    /\ UNCHANGED << made, nops, walk >>

\* The run ended because a cocofs_save failed: the image file is then not
\* one the tool wrote whole, and the model follows it no further.
SaveFailed == last.kind \in {"format", "copyin", "rm"} /\ last.why = "save"

\* The end of main() (1467-1471): no operand is left or the command gave
\* up; cocofs_close() (665-670) frees the image in memory and the tool exits
\* with eval.  What is left in memory is the next run's cocofs_alloc().
Close ==
    /\ pc \in {"idle", "done", "exit"}
    /\ ~SaveFailed
    /\ pc' = "closed"
    /\ SetFS(cocofs_alloc)
    /\ cmd' = "none"
    /\ last' = [kind |-> "exit", eval |-> retval]
    /\ UNCHANGED << origin, made, nops, walk, disk, retval >>

\* main() of the next run: cocofs_load() (622-649) of the image file.
Reopen(c) ==
    /\ pc = "closed"
    /\ LET fs == cocofs_load(disk) IN SetFS(fs)
    /\ cmd' = c
    /\ pc' = "idle"
    /\ retval' = "EXIT_SUCCESS"
    /\ last' = [kind |-> "load", image |-> "saved"]
    /\ UNCHANGED << origin, made, nops, walk, disk >>

\* What cmd_copyin does with the result r of cocofs_copyin (1363-1372):
\* on true, cocofs_save, whose result is sv; on either failing, the loop over
\* the operands is left.
CopyInReturn(arg, op, f, r, sv) ==
    /\ SetFS(r.fs)
    /\ disk' = sv.disk
    /\ last' = [kind |-> "copyin", ok |-> r.ok,
                why |-> IF r.ok /\ ~sv.ok THEN "save" ELSE r.why,
                f |-> f, di |-> r.di, glist |-> r.glist, nm |-> op,
                saves |-> IF r.ok THEN 1 ELSE 0, arg |-> arg]
    /\ pc' = IF sv.ok THEN "idle" ELSE "exit"
    /\ retval' = IF sv.ok THEN retval ELSE "EXIT_FAILURE"
    /\ made' = IF r.ok /\ FileLen(f) # 0 THEN [made EXCEPT ![r.di] = f] ELSE made
    /\ nops' = IF r.ok THEN nops + 1 ELSE nops
    /\ UNCHANGED << cmd, origin, walk >>

\* The cocofs_save after an operation that returned ok, none otherwise.
SaveAfter(ok, fs, sf) ==
    IF ok THEN cocofs_save(fs, disk, sf) ELSE [ok |-> FALSE, disk |-> disk]

CopyInCall(arg, op, f, r) ==
    \E sf \in SaveFaultsOf(r.ok) :
        CopyInReturn(arg, op, f, r, SaveAfter(r.ok, r.fs, sf))

\* An operand of cmd_copyin that is given up before cocofs_copyin is called
\* (1353-1362): retval = EXIT_FAILURE; continue.  No host file is opened.
CopyInSkip(arg, op, why) ==
    /\ last' = [kind |-> "copyin", ok |-> FALSE, why |-> why, f |-> 0,
                di |-> NoDir, glist |-> <<>>, nm |-> op, saves |-> 0,
                arg |-> arg]
    /\ retval' = "EXIT_FAILURE"
    /\ UNCHANGED << pc, cmd, origin, image_data, granule_map, directory,
                    free_granules, made, nops, walk, disk >>

\* The name, extension, type and encoding cocofs_parse_fname hands back.
OpOf(p) == [name |-> p.name, ext |-> p.ext, type |-> p.type, enc |-> p.enc]

\* What the host may do to cocofs_copyin of file f under the path `arg`: no
\* file has the empty path, open() of it fails.
HostFaults(arg, f) ==
    IF arg = <<>> THEN {[kind |-> "open", gi |-> 0, rv |-> 0]} ELSE Faults(f)

\* An operand handled without the lookup of its name.
CopyInParsed_nolookup(arg, p) ==
    IF ~p.ok THEN CopyInSkip(arg, OpOf(p), "name")
    ELSE \E f \in HostFiles : \E fm \in HostFaults(arg, f) :
            CopyInCall(arg, OpOf(p), f, cocofs_copyin(FS, f, OpOf(p), fm))

\* One operand of cmd_copyin (1352-1373), p being what cocofs_parse_fname
\* made of it; the host file is f, the host's faults fm.
CopyInParsed(arg, p) ==
    IF ~p.ok THEN CopyInSkip(arg, OpOf(p), "name")
    ELSE IF cocofs_lookup_raw(directory, p.name, p.ext) # NoDir
    THEN CopyInSkip(arg, OpOf(p), "exists")
    ELSE \E f \in HostFiles : \E fm \in HostFaults(arg, f) :
            CopyInCall(arg, OpOf(p), f, cocofs_copyin(FS, f, OpOf(p), fm))

CopyIn(arg) ==
    /\ pc = "idle"
    /\ cmd = "copyin"
    /\ nops < Budget
    /\ CopyInParsed(arg, cocofs_parse_fname(arg))

\* What cmd_rm does with the result r of cocofs_rm (1284-1291).
RmReturn(di, r, sv) ==
    /\ SetFS(r.fs)
    /\ disk' = sv.disk
    /\ last' = [kind |-> "rm", ok |-> r.ok,
                why |-> IF ~r.ok THEN "corrupt"
                        ELSE IF ~sv.ok THEN "save" ELSE "none",
                di |-> di, f |-> made[di], steps |-> r.steps,
                returned |-> r.returned,
                saves |-> IF r.ok THEN 1 ELSE 0]
    /\ pc' = IF sv.ok THEN "idle" ELSE "exit"
    /\ retval' = IF sv.ok THEN retval ELSE "EXIT_FAILURE"
    /\ made' = IF r.ok THEN [made EXCEPT ![di] = 0] ELSE made
    /\ nops' = IF r.ok THEN nops + 1 ELSE nops
    /\ UNCHANGED << cmd, origin, walk >>

RmCall(di, r) ==
    \E sf \in SaveFaultsOf(r.ok) : RmReturn(di, r, SaveAfter(r.ok, r.fs, sf))

RmLookup(di) ==
    IF di = NoDir
    THEN /\ last' = [kind |-> "rm", ok |-> FALSE, why |-> "noent", di |-> NoDir,
                     f |-> 0, steps |-> 0, returned |-> TRUE, saves |-> 0]
         /\ retval' = "EXIT_FAILURE"
         /\ UNCHANGED << pc, cmd, origin, image_data, granule_map, directory,
                         free_granules, made, nops, walk, disk >>
    ELSE RmCall(di, cocofs_rm(FS, di))

\* One operand of cmd_rm (1277-1292).
Rm(arg) ==
    /\ pc = "idle"
    /\ cmd = "rm"
    /\ nops < Budget
    /\ RmLookup(cocofs_lookup(directory, arg))

\* One operand of cmd_ls (1253-1263).
Stat(arg) ==
    /\ pc = "idle"
    /\ cmd = "ls"
    /\ LET di == cocofs_lookup(directory, arg)
       IN  /\ last' = IF di = NoDir
                      THEN [kind |-> "stat", ok |-> FALSE, di |-> NoDir]
                      ELSE [kind |-> "stat", ok |-> TRUE, di |-> di,
                            st |-> cocofs_stat(granule_map, directory[di])]
           /\ retval' = IF di = NoDir THEN "EXIT_FAILURE" ELSE retval
    /\ UNCHANGED << pc, cmd, origin, image_data, granule_map, directory, free_granules,
                    made, nops, walk, disk >>

(***************************************************************************)
(* cocofs_copyout (cocofs.c 907-991), one loop iteration per step.         *)
(* wfail is the host side: whether open() of the output file fails, and    *)
(* the index `at` of the write() that fails (NoWrite: none does).          *)
(***************************************************************************)
NoWrite == MaxWalk + 1
NoWriteFault == [open |-> FALSE, at |-> NoWrite]
WriteFaults ==
    {NoWriteFault, [open |-> TRUE, at |-> NoWrite],
     [open |-> FALSE, at |-> 0], [open |-> FALSE, at |-> 1]}

\* A return that leaves the exit status alone.
CopyOutReturn_keepstatus(ok, why) ==
    /\ pc' = "idle"
    /\ walk' = NoWalk
    /\ retval' = retval
    /\ last' = [kind |-> "copyout", ok |-> ok, why |-> why, di |-> walk.di,
                f |-> made[walk.di], wfail |-> walk.wfail, out |-> walk.out,
                steps |-> walk.gi + 1]

\* cocofs_copyout returns (988-990) and cmd_copyout sets retval (1331-1334).
CopyOutReturn(ok, why) ==
    /\ pc' = "idle"
    /\ walk' = NoWalk
    /\ retval' = IF ok THEN retval ELSE "EXIT_FAILURE"
    /\ last' = [kind |-> "copyout", ok |-> ok, why |-> why, di |-> walk.di,
                f |-> made[walk.di], wfail |-> walk.wfail, out |-> walk.out,
                steps |-> walk.gi + 1]

\* One operand of cmd_copyout (1309-1335) up to the loop of cocofs_copyout.
CopyOutStart(arg, wfail) ==
    /\ pc = "idle"
    /\ cmd = "copyout"
    /\ LET di == cocofs_lookup(directory, arg)
       IN  IF di = NoDir \/ wfail.open
           THEN /\ di = NoDir => wfail = NoWriteFault   \* no output file then
                /\ last' = [kind |-> "copyout", ok |-> FALSE,
                            why |-> IF di = NoDir THEN "noent" ELSE "open",
                            di |-> di, f |-> 0, wfail |-> wfail, out |-> <<>>,
                            steps |-> 0]
                /\ retval' = "EXIT_FAILURE"
                /\ UNCHANGED << pc, walk >>
           ELSE /\ pc' = "copyout"
                /\ UNCHANGED retval
                /\ walk' = [op |-> "copyout", di |-> di,
                            g |-> directory[di].d_first_granule, gi |-> 0,
                            loopcnt |-> 0, out |-> <<>>, nwrites |-> 0,
                            wfail |-> wfail]
                /\ last' = [kind |-> "copyout_running"]
    /\ UNCHANGED << cmd, origin, image_data, granule_map, directory, free_granules,
                    made, nops, disk >>

\* The bytes of the last granule to write (963-974), clamped as the code does.
copyout_last_nbytes(last_nsec, lastbytes) ==
    LET lb == IF lastbytes > COCOFS_BYTES_PER_SEC THEN COCOFS_BYTES_PER_SEC
              ELSE lastbytes
    IN  last_nsec * COCOFS_BYTES_PER_SEC - (COCOFS_BYTES_PER_SEC - lb)

\* What the loop counter is after one more iteration: the for statement at
\* 927 has no loopcnt++ in it.
copyout_next_loopcnt(loopcnt) == loopcnt

CopyOutStep ==
    /\ pc = "copyout"
    /\ walk.gi < MaxWalk
    /\ LET g == walk.g
           gn == granule_map[g]
           buf == image_data[cocofs_granule_to_offset(g)]
       IN  IF walk.loopcnt > COCOFS_NGRANULES THEN CopyOutReturn(FALSE, "cycle")
           ELSE IF g >= COCOFS_NGRANULES THEN CopyOutReturn(FALSE, "granule")
           ELSE IF ~gmap_entry_is_valid(gn) \/ gn = GMAP_FREE
           THEN CopyOutReturn(FALSE, "entry")
           ELSE IF GMAP_IS_LAST(gn)
           THEN LET last_nsec == GMAP_LAST_NSEC(gn)
                    n == copyout_last_nbytes(last_nsec,
                             cocofs_dir_lastbytes(directory[walk.di].d_last_bytes))
                IN  IF last_nsec < 1 \/ last_nsec > COCOFS_SEC_PER_GRANULE
                    THEN CopyOutReturn(FALSE, "nsec")
                    ELSE IF walk.wfail.at = walk.nwrites
                    THEN CopyOutReturn(FALSE, "write")
                    ELSE /\ pc' = "idle"
                         /\ walk' = NoWalk
                         /\ UNCHANGED retval
                         /\ last' = [kind |-> "copyout", ok |-> TRUE, why |-> "none",
                                     di |-> walk.di, f |-> made[walk.di],
                                     wfail |-> walk.wfail,
                                     out |-> RunNorm(walk.out \o BufTake(buf, n)),
                                     steps |-> walk.gi + 1]
           ELSE IF walk.wfail.at = walk.nwrites THEN CopyOutReturn(FALSE, "write")
           ELSE /\ walk' = [walk EXCEPT
                              !.out = RunNorm(walk.out \o buf),
                              !.nwrites = walk.nwrites + 1,
                              !.g = gn,
                              !.gi = walk.gi + 1,
                              !.loopcnt = copyout_next_loopcnt(walk.loopcnt)]
                /\ UNCHANGED << pc, last, retval >>
    /\ UNCHANGED << cmd, origin, image_data, granule_map, directory, free_granules,
                    made, nops, disk >>

(***************************************************************************)
(* cocofs_enumerate_directory (cocofs.c 778-870): cmd_dump (do_dump) and   *)
(* cmd_ls without operands.  ScanDir runs the outer loop up to the next    *)
(* slot that holds a file, ScanChase is one iteration of the inner loop.   *)
(***************************************************************************)
ScanStart(do_dump) ==
    /\ pc = "idle"
    /\ cmd = (IF do_dump THEN "dump" ELSE "lsall")
    /\ pc' = "scan_dir"
    /\ walk' = [op |-> "scan", do_dump |-> do_dump, di |-> 0,
                free |-> COCOFS_NGRANULES,
                shadow |-> [g \in Granules |-> 255],
                nfiles |-> 0, sizes |-> <<>>, diag |-> {},
                g |-> 0, gi |-> 0, loopcnt |-> 0]
    /\ last' = [kind |-> "scan_running"]
    /\ UNCHANGED << cmd, origin, image_data, granule_map, directory, free_granules,
                    made, nops, disk, retval >>

\* A search that takes every slot for a file, whatever its type byte.
NextFileSlot_any(dirs, from) ==
    IF from >= COCOFS_DIR_TRACK_NENTRIES THEN COCOFS_DIR_TRACK_NENTRIES ELSE from

\* The next slot at or after `from` that the loop at 794 does not skip.
NextFileSlot(dirs, from) ==
    LET m == {i \in Slots : i >= from /\ dirs[i].d_type <= COCOFS_DIRENT_TYPE_TEXT}
    IN  IF m = {} THEN COCOFS_DIR_TRACK_NENTRIES ELSE SetMin(m)

ScanDir ==
    /\ pc = "scan_dir"
    /\ LET di == NextFileSlot(directory, walk.di)
       IN  IF di = COCOFS_DIR_TRACK_NENTRIES
           THEN LET fg == IF walk.do_dump THEN walk.free ELSE free_granules
                IN  /\ pc' = "done"
                    /\ walk' = NoWalk
                    /\ last' = [kind |-> "scan", do_dump |-> walk.do_dump,
                                nfiles |-> walk.nfiles, sizes |-> walk.sizes,
                                free |-> fg,
                                warned |-> walk.do_dump /\ fg # free_granules,
                                diag |-> walk.diag]
           ELSE LET st == cocofs_stat(granule_map, directory[di])
                IN  /\ walk' = [walk EXCEPT
                                  !.di = IF walk.do_dump THEN di ELSE di + 1,
                                  !.nfiles = walk.nfiles + 1,
                                  !.sizes = Append(walk.sizes, st.st_size),
                                  !.g = directory[di].d_first_granule,
                                  !.gi = 0,
                                  !.loopcnt = 0]
                    /\ pc' = IF walk.do_dump THEN "scan_chase" ELSE "scan_dir"
                    /\ UNCHANGED last
    /\ UNCHANGED << cmd, origin, image_data, granule_map, directory, free_granules,
                    made, nops, disk, retval >>

\* Leaving the inner loop (845-852): on to the next slot.
ScanChaseEnd(w, msgs) ==
    /\ walk' = [w EXCEPT
                  !.diag = w.diag \cup msgs
                             \cup (IF w.loopcnt > COCOFS_NGRANULES
                                   THEN {<<w.di, "cycle">>} ELSE {}),
                  !.di = w.di + 1]
    /\ pc' = "scan_dir"

\* What the loop counter is after one more iteration: the for statement at
\* 813 has no loopcnt++ in it.
scan_next_loopcnt(loopcnt) == loopcnt

ScanChase ==
    /\ pc = "scan_chase"
    /\ walk.gi < MaxWalk
    /\ LET g == walk.g
           di == walk.di
       IN  IF walk.loopcnt > COCOFS_NGRANULES THEN ScanChaseEnd(walk, {})
           ELSE IF g >= COCOFS_NGRANULES
           THEN ScanChaseEnd(walk, {<<di, "granule">>})
           ELSE LET seen == walk.shadow[g] # 255
                    w == IF seen
                         THEN [walk EXCEPT !.diag = walk.diag \cup {<<di, "double">>}]
                         ELSE [walk EXCEPT !.free = walk.free - 1,
                                           !.shadow[g] = di]
                    gn == granule_map[g]
                IN  IF ~gmap_entry_is_valid(gn) THEN ScanChaseEnd(w, {<<di, "entry">>})
                    ELSE IF GMAP_IS_LAST(gn) THEN ScanChaseEnd(w, {})
                    ELSE /\ walk' = [w EXCEPT !.g = gn, !.gi = w.gi + 1,
                                              !.loopcnt = scan_next_loopcnt(w.loopcnt)]
                         /\ UNCHANGED pc
    /\ UNCHANGED << cmd, origin, image_data, granule_map, directory, free_granules,
                    made, nops, last, disk, retval >>

Next ==
    \/ \E sf \in SaveFaults : Format(sf)
    \/ \E id \in BackingImages, c \in Commands : Load(id, c)
    \/ Close
    \/ \E c \in Commands : Reopen(c)
    \/ \E arg \in CopyInArgs : CopyIn(arg)
    \/ \E arg \in LookupArgs(origin) : Rm(arg)
    \/ \E arg \in LookupArgs(origin) : Stat(arg)
    \/ \E arg \in LookupArgs(origin), wf \in WriteFaults : CopyOutStart(arg, wf)
    \/ CopyOutStep
    \/ \E d \in BOOLEAN : ScanStart(d)
    \/ ScanDir
    \/ ScanChase

Spec == Init /\ [][Next]_vars

(***************************************************************************)
(* cocofs_conv_name on its own: a run of copyin on a freshly formatted     *)
(* image whose one operand is any of the strings below, up to MaxNameLen   *)
(* characters of "heLLo_w0rldZ9" followed by nothing, ".", ".c", ".tXt",   *)
(* ".text", ".a.b" or ".a.bc", and "hello.c".                              *)
(***************************************************************************)
MaxNameLen == 10

Stem(n) ==
    SubSeq(<< 104, 101, 76, 76, 111, 95, 119, 48, 114, 108, 100, 90, 57 >>, 1, n)

NameTails ==
    {<< >>, << 46 >>, << 46, 99 >>, << 46, 116, 88, 116 >>,
     << 46, 116, 101, 120, 116 >>, << 46, 97, 46, 98 >>,
     << 46, 97, 46, 98, 99 >>}

NameInputs ==
    {Stem(n) \o t : n \in 0..MaxNameLen, t \in NameTails}
        \cup {<< 104, 101, 108, 108, 111, 46, 99 >>}

InitConv ==
    /\ pc = "idle"
    /\ cmd = "copyin"
    /\ origin = "format"
    /\ image_data = cocofs_format.image_data
    /\ granule_map = cocofs_format.granule_map
    /\ directory = cocofs_format.directory
    /\ free_granules = cocofs_format.free_granules
    /\ made = [i \in Slots |-> 0]
    /\ nops = 0
    /\ walk = NoWalk
    /\ disk = ImageOf(cocofs_format)
    /\ retval = "EXIT_SUCCESS"
    /\ \E full \in NameInputs : last = [kind |-> "argv", full |-> full]

ConvOperand ==
    /\ last.kind = "argv"
    /\ CopyIn(last.full)

NextConv == ConvOperand

SpecConv == InitConv /\ [][NextConv]_vars

(***************************************************************************)
(* cocofs_rm on its own: a run of rm CYC on a loaded image whose entry CYC *)
(* has the chain 0 -> 1 -> ... -> n-1, for every n in 1..68, the map entry *)
(* of granule n-1 being a link back to granule 0 ("ring"), a link back to  *)
(* the middle of the chain ("rho"), Terminal(1) ("last"), the invalid byte *)
(* 0x80 ("bad"), a link to index 68 ("l68") or Free ("free"); "head" is an *)
(* entry whose first granule is 67 + n, outside the map.                   *)
(***************************************************************************)
ChainShapes == {"ring", "rho", "last", "bad", "l68", "free", "head"}

ChainImage(n, shape) ==
    LET base == UniformImage(255)
        tail == CASE shape = "ring" -> 0
                  [] shape = "rho" -> n \div 2
                  [] shape = "last" -> GMAP_LAST + 1
                  [] shape = "bad" -> 128
                  [] shape = "l68" -> COCOFS_NGRANULES
                  [] OTHER -> GMAP_FREE
    IN  [base EXCEPT
           !.granule_map = [i \in SectorBytes |->
               IF shape = "head" \/ i >= n THEN 255
               ELSE IF i = n - 1 THEN tail
               ELSE i + 1],
           !.directory = [i \in Slots |->
               IF i = 0
               THEN MkDirent(NmCYC, 1,
                             IF shape = "head" THEN COCOFS_NGRANULES - 1 + n ELSE 0,
                             256)
               ELSE MemsetDirent(255)]]

InitRm ==
    /\ pc = "idle"
    /\ cmd = "rm"
    /\ origin = "load"
    /\ \E n \in 1..COCOFS_NGRANULES, shape \in ChainShapes :
          /\ image_data = cocofs_load(ChainImage(n, shape)).image_data
          /\ granule_map = cocofs_load(ChainImage(n, shape)).granule_map
          /\ directory = cocofs_load(ChainImage(n, shape)).directory
          /\ free_granules = cocofs_load(ChainImage(n, shape)).free_granules
          /\ disk = ChainImage(n, shape)
    /\ made = [i \in Slots |-> 0]
    /\ nops = 0
    /\ walk = NoWalk
    /\ retval = "EXIT_SUCCESS"
    /\ last = [kind |-> "load"]

RmOperand == Rm(<< 99, 121, 99 >>)

NextRm == RmOperand

SpecRm == InitRm /\ [][NextRm]_vars

(***************************************************************************)
(* The allocation order on its own: a run of copyin on a loaded image in   *)
(* which every granule is taken, its map entry Terminal(1), but the three  *)
(* granules a, a + d and a + 2d (mod 68), for every a in 0..67 and d in    *)
(* 1, 2, 5, and on an image with all 68 granules free (d = 0).             *)
(***************************************************************************)
FreeOnes(a, d) ==
    IF d = 0 THEN Granules ELSE {(a + i * d) % COCOFS_NGRANULES : i \in 0..2}

AllocImage(a, d) ==
    [UniformImage(255) EXCEPT
       !.granule_map = [i \in SectorBytes |->
           IF i \in Granules \ FreeOnes(a, d) THEN GMAP_LAST + 1 ELSE 255]]

AllocImages ==
    {AllocImage(a, d) : a \in Granules, d \in {1, 2, 5}} \cup {AllocImage(0, 0)}

InitAlloc ==
    /\ pc = "idle"
    /\ cmd = "copyin"
    /\ origin = "load"
    /\ \E img \in AllocImages :
          /\ image_data = cocofs_load(img).image_data
          /\ granule_map = cocofs_load(img).granule_map
          /\ directory = cocofs_load(img).directory
          /\ free_granules = cocofs_load(img).free_granules
          /\ disk = img
    /\ made = [i \in Slots |-> 0]
    /\ nops = 0
    /\ walk = NoWalk
    /\ retval = "EXIT_SUCCESS"
    /\ last = [kind |-> "load"]

AllocOperand == CopyIn(ArgTEST)

NextAlloc == AllocOperand

SpecAlloc == InitAlloc /\ [][NextAlloc]_vars

(***************************************************************************)
(* gmap_entry_is_valid and cocofs_granule_to_offset on their own: on a     *)
(* formatted image, the one applied to a byte v, any of 0..255, as the     *)
(* chain walks apply it to a map entry, the other to v as a granule index  *)
(* when v is one, as cocofs_copyin and cocofs_copyout apply it.            *)
(***************************************************************************)
InitBytes ==
    /\ pc = "idle"
    /\ cmd = "ls"
    /\ origin = "format"
    /\ image_data = cocofs_format.image_data
    /\ granule_map = cocofs_format.granule_map
    /\ directory = cocofs_format.directory
    /\ free_granules = cocofs_format.free_granules
    /\ made = [i \in Slots |-> 0]
    /\ nops = 0
    /\ walk = NoWalk
    /\ disk = ImageOf(cocofs_format)
    /\ retval = "EXIT_SUCCESS"
    /\ \E v \in SectorBytes : last = [kind |-> "byte", v |-> v]

EntryValid ==
    /\ last.kind = "byte"
    /\ last' = [kind |-> "valid", v |-> last.v,
                valid |-> gmap_entry_is_valid(last.v)]
    /\ UNCHANGED << pc, cmd, origin, image_data, granule_map, directory,
                    free_granules, made, nops, walk, disk, retval >>

GranuleOffset ==
    /\ last.kind = "byte"
    /\ last.v < COCOFS_NGRANULES
    /\ last' = [kind |-> "offset", g |-> last.v,
                off |-> cocofs_granule_to_offset(last.v)]
    /\ UNCHANGED << pc, cmd, origin, image_data, granule_map, directory,
                    free_granules, made, nops, walk, disk, retval >>

NextBytes ==
    \/ EntryValid
    \/ GranuleOffset

SpecBytes == InitBytes /\ [][NextBytes]_vars

(***************************************************************************)
(* Properties.                                                             *)
(***************************************************************************)
\* A copyout of slot di that has returned, no call on the host side failing.
CopyOutDone ==
    /\ last.kind = "copyout"
    /\ last.di # NoDir
    /\ last.wfail = NoWriteFault

\* C1: Round trip.  On an image that began with format, whatever was added
\* or removed before, a copyout of an entry that copyin created from a host
\* file of length L >= 1 succeeds and emits exactly L bytes, equal byte for
\* byte to the file's content.
C1_RoundTrip ==
    (CopyOutDone /\ origin = "format")
        => /\ last.f # 0
           /\ last.ok
           /\ BufLen(last.out) = FileLen(last.f)
           /\ SameBytes(last.out, <<FileSeg(last.f, 0, FileLen(last.f))>>)

\* C1 happens: a file of one granule plus one byte, stored in two granules
\* that are not neighbours (a file before it was removed), is copied out.
C1_Witness ==
    /\ CopyOutDone
    /\ origin = "format"
    /\ last.ok
    /\ FileLen(last.f) = COCOFS_BYTES_PER_GRANULE + 1
    /\ granule_map[directory[last.di].d_first_granule]
           # directory[last.di].d_first_granule + 1

\* C1 also happens for a file of exactly one granule.
C1_WitnessExact ==
    /\ CopyOutDone
    /\ origin = "format"
    /\ last.ok
    /\ FileLen(last.f) = COCOFS_BYTES_PER_GRANULE

\* A step in which cocofs_copyin was called and returned false.
FailedAddStep ==
    /\ pc = "idle"
    /\ cmd = "copyin"
    /\ last'.kind = "copyin"
    /\ ~last'.ok
    /\ last'.why # "exists"

\* C2: A failed add (open or stat failure, capacity error, directory full, a
\* failed or short read at any granule) leaves the free-granule counter, all
\* 72 directory slots and all 68 granule-map bytes as they were before the
\* attempt, whatever the image was.
C2_FailedAddKeepsMetadata ==
    [][FailedAddStep
          => /\ free_granules' = free_granules
             /\ \A g \in Granules : granule_map'[g] = granule_map[g]
             /\ \A i \in Slots : directory'[i] = directory[i]]_vars

\* The granules an entry's chain refers to: those reached from `first` by
\* following links, up to a terminal entry, an entry that is no link or an
\* index outside the map; `cycle` tells that a granule was met again.
chain_step(s) ==
    IF s.g >= COCOFS_NGRANULES THEN [s EXCEPT !.done = TRUE]
    ELSE IF s.g \in s.seen THEN [s EXCEPT !.cycle = TRUE, !.done = TRUE]
    ELSE LET gn == s.gmap[s.g]
             t == [s EXCEPT !.seen = s.seen \cup {s.g}]
         IN  IF ~gmap_entry_is_valid(gn) \/ GMAP_IS_LAST(gn)
             THEN [t EXCEPT !.done = TRUE]
             ELSE [t EXCEPT !.g = gn]

ChainWalk(gmap, first) ==
    Iterate(chain_step, COCOFS_NGRANULES + 1,
            [gmap |-> gmap, g |-> first, seen |-> {}, cycle |-> FALSE,
             done |-> FALSE])

ChainGranules(gmap, first) == ChainWalk(gmap, first).seen

\* The chain is a cycle of links: it never reaches a terminal entry.
ChainCyclic(gmap, first) == ChainWalk(gmap, first).cycle

Occupied(i) == directory[i].d_type # COCOFS_DIRENT_TYPE_FREE

ChainOfSlot(i) == ChainGranules(granule_map, directory[i].d_first_granule)

\* A step in which cocofs_copyin was called and returned true.
AddStep ==
    /\ pc = "idle"
    /\ cmd = "copyin"
    /\ last'.kind = "copyin"
    /\ last'.ok

\* In the state at hand, no two distinct occupied directory entries have a
\* granule in common.
ChainsDisjoint ==
    LET occ == {i \in Slots : Occupied(i)}
        chain == [i \in occ |-> ChainOfSlot(i)]
    IN  \A i, j \in occ : i < j => chain[i] \cap chain[j] = {}

\* C3: No double allocation.  Starting from a formatted image, every add
\* that succeeds took only granules whose map entry was Free, each of them
\* once, they are the chain of the entry it made, and in every state with an
\* image in memory the chains of two distinct occupied directory entries
\* share no granule.
C3_NoDoubleAllocation ==
    /\ [](origin = "format" /\ pc # "closed" => ChainsDisjoint)
    /\ [][origin' = "format" /\ AddStep
            => /\ \A k \in 1..Len(last'.glist) :
                     granule_map[last'.glist[k]] = GMAP_FREE
               /\ Cardinality({last'.glist[k] : k \in 1..Len(last'.glist)})
                      = Len(last'.glist)
               /\ last'.glist # <<>>
                    => ChainGranules(granule_map',
                                     directory'[last'.di].d_first_granule)
                           = {last'.glist[k] : k \in 1..Len(last'.glist)}]_vars

\* C3's case happens: two files of several granules each are on the image,
\* one of them in granules that are not neighbours.
C3_Witness ==
    /\ origin = "format"
    /\ \E i, j \in Slots :
          /\ i < j /\ Occupied(i) /\ Occupied(j)
          /\ Cardinality(ChainOfSlot(i)) >= 2
          /\ Cardinality(ChainOfSlot(j)) >= 2
          /\ \E g \in ChainOfSlot(i) :
                granule_map[g] < COCOFS_NGRANULES /\ granule_map[g] # g + 1

\* A step in which cocofs_rm returned true for a file that copyin created.
RemoveAddedStep ==
    /\ pc = "idle"
    /\ cmd = "rm"
    /\ last'.kind = "rm"
    /\ last'.ok
    /\ last'.f # 0

\* C4: Granule accounting.  A successful add of a file of length L, needing
\* k = ceil(L / 2304) granules, lowers the free-granule counter by exactly k,
\* and a later successful remove of that file raises it by exactly k.
C4_GranuleAccounting ==
    [][/\ AddStep
          => free_granules' = free_granules - GranulesNeeded(FileLen(last'.f))
       /\ RemoveAddedStep
          => free_granules' = free_granules + GranulesNeeded(FileLen(last'.f))]_vars

\* C4's case happens: a file of several granules was added and then removed,
\* and the counter is back at the 68 it was before the add.
C4_Witness ==
    /\ origin = "format"
    /\ last.kind = "rm"
    /\ last.ok
    /\ last.f # 0
    /\ GranulesNeeded(FileLen(last.f)) >= 2
    /\ free_granules = COCOFS_NGRANULES

\* The number of granule-map entries that are Free.
FreeEntries == Cardinality({g \in Granules : granule_map[g] = GMAP_FREE})

\* C5: Free-counter invariant.  After format the counter is 68; after load
\* and after every add or remove, successful or failed, it equals the number
\* of the 68 granule-map entries equal to 0xFF.
C5_FreeCounter ==
    /\ last.kind = "format" => free_granules = COCOFS_NGRANULES
    /\ origin # "none" => free_granules = FreeEntries

\* C5's case happens: a remove has failed on a loaded image after it freed a
\* granule and counted it.
C5_Witness ==
    /\ origin = "load"
    /\ last.kind = "rm"
    /\ ~last.ok
    /\ last.di # NoDir
    /\ free_granules > cocofs_load(BackingImage("damaged")).free_granules

\* A step in which cocofs_rm was called and returned false.
FailedRemoveStep ==
    /\ pc = "idle"
    /\ cmd = "rm"
    /\ last'.kind = "rm"
    /\ ~last'.ok
    /\ last'.di # NoDir

\* C6: Remove is all-or-nothing on corruption.  Whatever the image, when
\* cocofs_rm meets an out-of-range granule index, an invalid map entry or an
\* already-free entry, at the first granule or later, it fails with the
\* granule map, the free-granule counter and the directory unchanged.
C6_RemoveAllOrNothing ==
    [][FailedRemoveStep
          => /\ free_granules' = free_granules
             /\ \A g \in Granules : granule_map'[g] = granule_map[g]
             /\ directory' = directory]_vars

\* C7: Cycle detection in size computation.  For an entry whose chain is a
\* cycle of links, cocofs_stat returns after at most 69 passes of its loop
\* and reports a cycle or corruption condition to its caller.
C7_StatReportsCycle ==
    (/\ last.kind = "stat"
     /\ last.ok
     /\ ChainCyclic(granule_map, directory[last.di].d_first_granule))
        => /\ last.st.returned
           /\ last.st.steps <= COCOFS_NGRANULES + 1
           /\ last.st.diag # {}

\* C8: Stream-out is step-bounded.  Whatever the image, a running
\* cocofs_copyout has made at most 69 passes of its loop and written at most
\* 69 granules to the sink: on a cyclic chain it stops by then.
C8_CopyOutStepBounded ==
    pc = "copyout"
        => /\ walk.gi <= COCOFS_NGRANULES + 1
           /\ walk.nwrites <= COCOFS_NGRANULES + 1

\* C9: The diagnostic scan terminates.  Whatever the image, the chain walk
\* of cocofs_enumerate_directory for a slot has made at most 69 passes of
\* its loop: it ends on exceeding the iteration bound at the latest, and the
\* scan goes on to the next slot.
C9_ScanChaseBounded ==
    pc = "scan_chase" => walk.gi <= COCOFS_NGRANULES + 1

\* The bytes of the data granule g in an image.
GranuleBytes(img, g) == img[cocofs_granule_to_offset(g)]

\* C10 as stated: a failed add leaves every byte of the image as it was
\* before the attempt: the data granules, the granule map's sector and the
\* directory.
C10_FailedAddKeepsImage ==
    [][FailedAddStep
          => /\ \A g \in Granules :
                   SameBytes(GranuleBytes(image_data', g), GranuleBytes(image_data, g))
             /\ granule_map' = granule_map
             /\ directory' = directory]_vars

\* C10, amended: a failed add restores the granule map and the free-granule
\* counter, and changes no byte of the image other than in data granules
\* whose map entry was Free before the attempt and in the first directory
\* slot whose type byte was Free, which is left all 0xFF.
C10_FailedAddKeepsLiveBytes ==
    [][FailedAddStep
          => /\ free_granules' = free_granules
             /\ granule_map' = granule_map
             /\ \A g \in Granules :
                   granule_map[g] # GMAP_FREE
                       => SameBytes(GranuleBytes(image_data', g),
                                    GranuleBytes(image_data, g))
             /\ \A i \in Slots :
                   \/ directory'[i] = directory[i]
                   \/ /\ i = FirstFreeSlot(directory)
                      /\ directory'[i] = MemsetDirent(255)]_vars

\* C10's case happens: an add has failed on a read after the file's first
\* granule was copied, and that granule, free again, holds the file's bytes.
C10_Witness ==
    /\ last.kind = "copyin"
    /\ ~last.ok
    /\ last.why = "read"
    /\ \E g \in Granules :
          /\ granule_map[g] = GMAP_FREE
          /\ GranuleBytes(image_data, g)
                 = <<FileSeg(last.f, 0, COCOFS_BYTES_PER_GRANULE)>>

\* A step in which cocofs_copyin got as far as its capacity check.
CapacityCheckedStep ==
    /\ pc = "idle"
    /\ cmd = "copyin"
    /\ last'.kind = "copyin"
    /\ last'.why \notin {"name", "exists", "open", "fstat"}

\* C11: Capacity check makes allocation safe.  An add whose source could be
\* opened and measured fails with the capacity error exactly when
\* ceil(L / 2304) exceeds the free-granule counter, and on every image
\* reached by format or load and adds and removes, neither the abort() of
\* cocofs_galloc nor an assertion of cocofs_copyin is ever met.
C11_CapacityCheck ==
    [][/\ CapacityCheckedStep
          => (last'.why = "nospc"
                 <=> GranulesNeeded(FileLen(last'.f)) > free_granules)
       /\ last'.kind = "copyin" => last'.why \notin {"abort", "assert"}]_vars

\* C11's case happens: on an image with files on it an add was refused for
\* lack of space, the counter below 68.
C11_Witness ==
    /\ last.kind = "copyin"
    /\ last.why = "nospc"
    /\ nops >= 1
    /\ free_granules < COCOFS_NGRANULES
    /\ free_granules > 0

\* C11 also happens the other way: an add of several granules went through
\* on an image that a remove had left with a hole.
C11_WitnessPassed ==
    /\ last.kind = "copyin"
    /\ last.ok
    /\ Len(last.glist) >= 2
    /\ last.glist[2] # last.glist[1] + 1

\* cocofs_stat has just been run on an entry that copyin created.
StatOfAdded ==
    /\ last.kind = "stat"
    /\ last.ok
    /\ made[last.di] # 0

\* C12: Size computation is exact for files the allocator created.  For an
\* entry made by an add of L >= 1 bytes, cocofs_stat returns L, and L is
\* (number of link granules) * 2304 + k * 256 - (256 - last-sector bytes)
\* for the chain's terminal entry Terminal(k).
C12_StatExact ==
    StatOfAdded
        => LET dir == directory[last.di]
               w == ChainWalk(granule_map, dir.d_first_granule)
               k == GMAP_LAST_NSEC(granule_map[w.g])
           IN  /\ last.st.st_size = FileLen(made[last.di])
               /\ GMAP_IS_LAST(granule_map[w.g])
               /\ last.st.st_size
                      = (Cardinality(w.seen) - 1) * COCOFS_BYTES_PER_GRANULE
                            + k * COCOFS_BYTES_PER_SEC
                            - (COCOFS_BYTES_PER_SEC
                                   - cocofs_dir_lastbytes(dir.d_last_bytes))

\* C12's case happens: the 5000-byte file, in three granules, is reported as
\* 5000 bytes.
C12_Witness ==
    /\ StatOfAdded
    /\ FileLen(made[last.di]) = 5000
    /\ last.st.st_size = 5000
    /\ Cardinality(ChainOfSlot(last.di)) = 3

\* A step that handles one operand of rm or copyin.
OperandStep ==
    /\ pc = "idle"
    /\ cmd \in {"rm", "copyin"}
    /\ last'.kind \in {"rm", "copyin"}

\* C13: Persistence ordering.  In rm and copyin, between operands the image
\* file holds the image in memory; an operand whose cocofs_rm or
\* cocofs_copyin returns true is followed by exactly one cocofs_save, which
\* when it succeeds leaves the file equal to the image in memory; an operand
\* that fails is followed by no save and leaves the file as it was, and once
\* the command has given up the file is written no more: the file never
\* holds what a failed add or remove left in memory.
C13_PersistenceOrdering ==
    /\ [](pc = "idle" => disk = ImageOf(FS))
    /\ [][/\ OperandStep /\ last'.ok
                => /\ last'.saves = 1
                   /\ last'.why # "save"
                        => /\ disk'.image_data = image_data'
                           /\ disk'.granule_map = granule_map'
                           /\ disk'.directory = directory'
                           /\ pc' = "idle"
          /\ OperandStep /\ ~last'.ok
                => /\ last'.saves = 0
                   /\ disk' = disk
          /\ pc = "exit" => disk' = disk /\ pc' = "closed"]_vars

\* C13's case happens: after an add that succeeded and was saved, an add has
\* failed leaving its traces in memory, and the image file is without them.
C13_Witness ==
    /\ last.kind = "copyin"
    /\ ~last.ok
    /\ last.why = "read"
    /\ nops >= 1
    /\ pc = "exit"
    /\ disk # ImageOf(FS)
    /\ \E i \in Slots : made[i] # 0 /\ disk.directory[i] = directory[i]

\* Some occupied slot of dirs holds the name and extension of nm.
NameOccupied(dirs, nm) ==
    \E i \in Slots : /\ dirs[i].d_type # COCOFS_DIRENT_TYPE_FREE
                     /\ dirs[i].d_name = nm.name
                     /\ dirs[i].d_ext = nm.ext

\* C14: Duplicate name on add.  A copyin operand is refused as existing
\* exactly when an occupied slot already holds its name and extension, and
\* then nothing was allocated: image, map, directory and counter are
\* unchanged, the operand is not saved and the image file is as it was, the
\* exit status is failure, and the command stays in its loop over the
\* operands.
C14_DuplicateName ==
    [][pc = "idle" /\ cmd = "copyin" /\ last'.kind = "copyin"
          => /\ last'.why # "name"
                  => (NameOccupied(directory, last'.nm) <=> last'.why = "exists")
             /\ last'.why = "exists"
                  => /\ UNCHANGED << image_data, granule_map, directory,
                                     free_granules, disk, cmd >>
                     /\ ~last'.ok
                     /\ last'.saves = 0
                     /\ last'.glist = <<>>
                     /\ retval' = "EXIT_FAILURE"
                     /\ pc' = "idle"]_vars

\* C14's case happens: an operand was refused as existing in a run that had
\* not failed before, and its name is that of a file added earlier.
C14_Witness ==
    /\ last.kind = "copyin"
    /\ last.why = "exists"
    /\ retval = "EXIT_FAILURE"
    /\ \E i \in Slots : /\ made[i] # 0
                        /\ directory[i].d_name = last.nm.name
                        /\ directory[i].d_ext = last.nm.ext

\* The last operand of a batch command failed, and not by its cocofs_save.
OperandFailed ==
    /\ last.kind \in {"stat", "rm", "copyin", "copyout"}
    /\ ~last.ok

\* C15: Batch continuation.  In ls with names, rm, copyin and copyout, after
\* an operand that failed for another reason than a failed save the command
\* is still in its loop over the operands, where every remaining operand is
\* taken up.
C15_BatchContinuation == OperandFailed => pc = "idle"

\* A step that ends the handling of one operand of ls, rm, copyin or copyout.
OperandDone ==
    /\ pc \in {"idle", "copyout"}
    /\ last'.kind \in {"stat", "rm", "copyin", "copyout"}

\* The operand just handled failed: by its lookup, its name, the operation
\* itself or the save after it.
OperandLost ==
    \/ ~last'.ok
    \/ last'.kind \in {"rm", "copyin"} /\ last'.why = "save"

\* C16: Exit status.  In ls with names, rm, copyin and copyout an operand
\* that fails makes the status failure and one that succeeds leaves it as
\* it is; within a run a status of failure stays, the status changes for no
\* other reason, and it is what the run exits with: success only if every
\* operand succeeded.
C16_ExitStatus ==
    [][/\ OperandDone /\ OperandLost => retval' = "EXIT_FAILURE"
       /\ OperandDone /\ ~OperandLost => retval' = retval
       /\ retval = "EXIT_FAILURE" /\ pc # "closed" => retval' = "EXIT_FAILURE"
       /\ retval' # retval
            => \/ OperandDone /\ OperandLost
               \/ pc \in {"start", "closed"}
       /\ pc' = "closed" => last'.eval = retval]_vars

\* C16's case happens: an operand has succeeded after another one of the same
\* run had failed, and the status is failure.
C16_Witness ==
    /\ last.kind \in {"stat", "rm", "copyin", "copyout"}
    /\ last.ok
    /\ last.kind \in {"rm", "copyin"} => last.why # "save"
    /\ retval = "EXIT_FAILURE"

\* The upper-case letter of a lower-case one, any other character itself.
Upper(c) == IF c \in 97..122 THEN c - 32 ELSE c

\* Where the first '.' of s is, one past the end of s if it has none.
FirstDot(s) ==
    IF \E i \in 1..Len(s) : s[i] = 46
    THEN SetMin({i \in 1..Len(s) : s[i] = 46})
    ELSE Len(s) + 1

BeforeDot(s) == SubSeq(s, 1, FirstDot(s) - 1)
AfterDot(s) == SubSeq(s, FirstDot(s) + 1, Len(s))

\* part in upper case, padded with spaces to n bytes.
Padded(part, n) == [i \in 1..n |-> IF i <= Len(part) THEN Upper(part[i]) ELSE 32]

\* cocofs_conv_name is right about the string s.
ConvNameRight(s) ==
    LET r == cocofs_conv_name(s)
    IN  /\ r.ok <=> Len(BeforeDot(s)) <= 8 /\ Len(AfterDot(s)) <= 3
        /\ r.ok => r.name = Padded(BeforeDot(s), 8) /\ r.ext = Padded(AfterDot(s), 3)

\* C17: Name normalization.  For every string cocofs_conv_name succeeds
\* exactly when the part before the first '.' has at most 8 characters and
\* the part after it at most 3, and then the name is the first part and the
\* extension the second, a-z mapped to A-Z, padded with spaces to 8 and 3
\* bytes: "hello.c" gives "HELLO   " and "C  ".  In copyin an operand whose
\* name does not convert is given up with image, map, directory, counter and
\* image file unchanged, and one that converts and is added has the
\* converted name and extension in its directory entry.
C17_NameNormalization ==
    /\ [](last.kind = "argv" => ConvNameRight(last.full))
    /\ [](last.kind = "argv" /\ last.full = << 104, 101, 108, 108, 111, 46, 99 >>
            => /\ cocofs_conv_name(last.full).name
                     = << 72, 69, 76, 76, 79, 32, 32, 32 >>
               /\ cocofs_conv_name(last.full).ext = << 67, 32, 32 >>)
    /\ [][last.kind = "argv" /\ last'.kind = "copyin"
            => IF cocofs_conv_name(last.full).ok
               THEN /\ last'.why # "name"
                    /\ last'.ok /\ FileLen(last'.f) # 0
                         => /\ directory'[last'.di].d_name
                                  = cocofs_conv_name(last.full).name
                            /\ directory'[last'.di].d_ext
                                  = cocofs_conv_name(last.full).ext
               ELSE /\ last'.why = "name"
                    /\ last'.glist = <<>>
                    /\ last'.saves = 0
                    /\ UNCHANGED << image_data, granule_map, directory,
                                    free_granules, disk >>]_vars

\* C17's case happens: copyin has given up an operand whose name part is
\* longer than 8 characters, on an image still as formatted.
C17_Witness ==
    /\ last.kind = "copyin"
    /\ last.why = "name"
    /\ Len(BeforeDot(last.arg)) > 8
    /\ Len(AfterDot(last.arg)) <= 3
    /\ directory = cocofs_format.directory

\* The number of granules that hold len bytes, and the bytes of them that
\* are in the last granule.
CeilDiv(a, b) == (a + b - 1) \div b
LastGranuleBytes(len) ==
    len - (CeilDiv(len, COCOFS_BYTES_PER_GRANULE) - 1) * COCOFS_BYTES_PER_GRANULE

\* The chain of occupied entry i is that of a file of len bytes.
ChainWellFormed(i, len) ==
    LET dir == directory[i]
        w == ChainWalk(granule_map, dir.d_first_granule)
        rem == LastGranuleBytes(len)
        k == CeilDiv(rem, COCOFS_BYTES_PER_SEC)
    IN  /\ dir.d_first_granule < COCOFS_NGRANULES
        /\ ~w.cycle
        /\ Cardinality(w.seen) = CeilDiv(len, COCOFS_BYTES_PER_GRANULE)
        /\ w.g \in w.seen
        /\ \A g \in w.seen \ {w.g} : granule_map[g] < COCOFS_NGRANULES
        /\ k \in 1..COCOFS_SEC_PER_GRANULE
        /\ granule_map[w.g] = GMAP_LAST + k
        /\ cocofs_dir_lastbytes(dir.d_last_bytes)
               = IF rem % COCOFS_BYTES_PER_SEC = 0 THEN COCOFS_BYTES_PER_SEC
                 ELSE rem % COCOFS_BYTES_PER_SEC

\* C18: Chain well-formedness.  In every state with an image in memory that
\* began as a formatted image and has seen adds and removes, failed ones
\* among them, every occupied directory entry was made by an add of some
\* L >= 1 bytes, its first granule is below 68, its chain has exactly
\* ceil(L/2304) distinct granules, each but the last a link to a granule
\* below 68, the last Terminal(k) with k = ceil(rem/256) in 1..9, and its
\* last-sector byte count is rem mod 256, or 256 when that is 0, rem being
\* the bytes in the last granule.
C18_ChainWellFormed ==
    origin = "format" /\ pc # "closed"
        => \A i \in Slots :
              Occupied(i)
                  => /\ made[i] # 0
                     /\ FileLen(made[i]) >= 1
                     /\ ChainWellFormed(i, FileLen(made[i]))

\* C18's case happens: an add has just failed on a read, and the image holds
\* the 5000-byte file in three granules, two links and Terminal(2), with 136
\* bytes in the last sector.
C18_Witness ==
    /\ origin = "format"
    /\ last.kind = "copyin"
    /\ last.why = "read"
    /\ \E i \in Slots :
          /\ Occupied(i)
          /\ FileLen(made[i]) = 5000
          /\ Cardinality(ChainOfSlot(i)) = 3
          /\ granule_map[ChainWalk(granule_map, directory[i].d_first_granule).g]
                 = GMAP_LAST + 2
          /\ cocofs_dir_lastbytes(directory[i].d_last_bytes) = 136

\* A step in which cocofs_rm was called and returned true.
RemoveStep ==
    /\ pc = "idle"
    /\ cmd = "rm"
    /\ last'.kind = "rm"
    /\ last'.ok

\* All 32 bytes of the directory entry d are 0xFF.
AllBytesFF(d) ==
    /\ d.d_name = << 255, 255, 255, 255, 255, 255, 255, 255 >>
    /\ d.d_ext = << 255, 255, 255 >>
    /\ d.d_type = 255
    /\ d.d_encoding = 255
    /\ d.d_first_granule = 255
    /\ d.d_last_bytes = << 255, 255 >>
    /\ d.d_unused = Fill(255, 16)
    /\ Len(d.d_name) + Len(d.d_ext) + 3 + Len(d.d_last_bytes) + Len(d.d_unused) = 32

AddAttemptStep ==
    /\ origin = "format"
    /\ pc = "idle"
    /\ cmd = "copyin"
    /\ last'.kind = "copyin"

\* C20: Add never disturbs existing files.  On an image that began as a
\* formatted one an add, successful or failed, changes data bytes only in
\* granules whose map entry was Free, map entries only where they were Free,
\* and at most one directory slot, one that was Free; the directory slot of
\* every file there before, the map entries of its chain and the data bytes
\* of its granules, all that a copy-out of it reads, are unchanged.
C20_AddKeepsExistingFiles ==
    [][AddAttemptStep
          => /\ \A g \in Granules :
                   granule_map[g] # GMAP_FREE
                       => /\ granule_map'[g] = granule_map[g]
                          /\ SameBytes(GranuleBytes(image_data', g),
                                       GranuleBytes(image_data, g))
             /\ \A g \in SectorBytes \ Granules : granule_map'[g] = granule_map[g]
             /\ \A i \in Slots :
                   directory'[i] # directory[i]
                       => directory[i].d_type = COCOFS_DIRENT_TYPE_FREE
             /\ Cardinality({i \in Slots : directory'[i] # directory[i]}) <= 1
             /\ \A i \in Slots :
                   Occupied(i)
                       => /\ directory'[i] = directory[i]
                          /\ \A g \in ChainOfSlot(i) :
                                /\ granule_map[g] # GMAP_FREE
                                /\ granule_map'[g] = granule_map[g]
                                /\ GranuleBytes(image_data', g)
                                       = GranuleBytes(image_data, g)]_vars

\* C20's case happens: the 5000-byte file has been added, in a slot below
\* that of a file that was there before, and that file is as it was made.
C20_Witness ==
    /\ origin = "format"
    /\ last.kind = "copyin"
    /\ last.ok
    /\ FileLen(last.f) = 5000
    /\ \E j \in Slots :
          /\ last.di < j
          /\ Occupied(j)
          /\ made[j] # 0
          /\ ChainWellFormed(j, FileLen(made[j]))

\* An add has failed on a read after it wrote to the image, on an image that
\* holds a file from before.
C20_WitnessFailed ==
    /\ origin = "format"
    /\ last.kind = "copyin"
    /\ last.why = "read"
    /\ \E j \in Slots : Occupied(j) /\ made[j] # 0
    /\ \E g \in Granules :
          /\ granule_map[g] = GMAP_FREE
          /\ GranuleBytes(image_data, g) # GranuleBytes(cocofs_format.image_data, g)

\* A step in which cocofs_rm was called.
RmCalledStep ==
    /\ pc = "idle"
    /\ cmd = "rm"
    /\ last'.kind = "rm"
    /\ last'.di # NoDir

\* C21: Remove terminates without a cycle guard.  Whatever the image, a
\* cyclic chain included, cocofs_rm returns after visiting at most 69
\* granules, and on a chain that is a cycle of links it returns false.
C21_RemoveTerminates ==
    [][RmCalledStep
          => /\ last'.returned
             /\ last'.steps <= COCOFS_NGRANULES + 1
             /\ ChainCyclic(granule_map, directory[last'.di].d_first_granule)
                    => ~last'.ok]_vars

\* C21's case happens: cocofs_rm has walked the ring of all 68 granules,
\* freed every one, met granule 0 again as its 69th and returned false.
C21_Witness ==
    /\ last.kind = "rm"
    /\ last.di # NoDir
    /\ ~last.ok
    /\ last.returned
    /\ last.steps = COCOFS_NGRANULES + 1
    /\ \A g \in Granules : granule_map[g] = GMAP_FREE

\* The dump command's scan has just ended on an image that format, adds and
\* removes built.
DumpOfBuilt ==
    /\ origin = "format"
    /\ last.kind = "scan"
    /\ last.do_dump

\* The granules reached from the occupied slots.
ReachedGranules == UNION {ChainOfSlot(i) : i \in {j \in Slots : Occupied(j)}}

\* C22: The consistency check is clean on every image the tool itself
\* builds.  On an image reached from a formatted one by adds and removes
\* that succeeded, the scan of dump reports no invalid granule, no invalid
\* map entry, no double allocation and no cycle, and its tally of free
\* granules, 68 less the granules reached from occupied slots, is the stored
\* counter: no warning is printed.
C22_ScanClean ==
    /\ origin = "format" /\ pc \in {"scan_dir", "scan_chase"} /\ walk.do_dump
           => walk.diag = {}
    /\ DumpOfBuilt
           => /\ last.diag = {}
              /\ ~last.warned
              /\ last.free = free_granules
              /\ last.free = COCOFS_NGRANULES - Cardinality(ReachedGranules)

\* C22's case happens: a dump of an image with two files on it, five or more
\* granules taken, has ended without a diagnostic.
C22_Witness ==
    /\ DumpOfBuilt
    /\ last.nfiles = 2
    /\ last.free <= COCOFS_NGRANULES - 4
    /\ last.diag = {}

\* How far granule g is from granule `from`, going up and from 67 on to 0.
CyclicDist(from, g) == (g + COCOFS_NGRANULES - from) % COCOFS_NGRANULES

\* The first of the granules in S in cyclic order from `from`.
FirstInOrder(S, from) ==
    CHOOSE g \in S : \A h \in S : CyclicDist(from, g) <= CyclicDist(from, h)

\* The granules whose map entry is Free.
FreeSet == {g \in Granules : granule_map[g] = GMAP_FREE}

\* C23: Allocation order.  In an add that succeeds the first granule taken
\* is the first Free one in cyclic order from 34, and each further one the
\* first Free one in cyclic order after the one taken before it, 0 coming
\* after 67; on an image with every granule free a file of k granules gets
\* 34, 35, ..., 34 + k - 1 (mod 68), and 34 is its first granule.
C23_AllocationOrder ==
    [][AddStep
          => /\ \A k \in 1..Len(last'.glist) :
                   last'.glist[k]
                       = FirstInOrder(FreeSet \ {last'.glist[j] : j \in 1..(k - 1)},
                                      IF k = 1 THEN COCOFS_NGRANULES \div 2
                                      ELSE (last'.glist[k - 1] + 1) % COCOFS_NGRANULES)
             /\ FreeSet = Granules
                    => /\ \A k \in 1..Len(last'.glist) :
                             last'.glist[k] = (34 + k - 1) % 68
                       /\ last'.glist # <<>>
                              => directory'[last'.di].d_first_granule = 34]_vars

\* C23's case happens: a file of three granules was added when only 66, 67
\* and 0 were free, and its chain is 66 -> 67 -> 0.
C23_Witness ==
    /\ last.kind = "copyin"
    /\ last.ok
    /\ last.glist = << 66, 67, 0 >>
    /\ directory[last.di].d_first_granule = 66
    /\ granule_map[66] = 67
    /\ granule_map[67] = 0
    /\ granule_map[0] = GMAP_LAST + 2

\* A file of three granules was added to an image with every granule free.
C23_WitnessFresh ==
    /\ last.kind = "copyin"
    /\ last.ok
    /\ last.glist = << 34, 35, 36 >>
    /\ free_granules = COCOFS_NGRANULES - 3

\* C24: Granule-map entry validity.  For every byte v, gmap_entry_is_valid(v)
\* is true exactly when v is Free (0xFF), a Terminal value 0xC0..0xC9 or a
\* link to a granule index 0..67; a link to 68 or above and the marker 0xFE
\* are invalid.
C24_EntryValidity ==
    last.kind = "valid"
        => (last.valid <=> \/ last.v = 255
                           \/ last.v \in 192..201
                           \/ last.v \in 0..67)

\* C28: Granule offset mapping.  For every granule g of 0..67 the offset is
\* track(g) * 4608, plus 2304 if g is odd, with track(g) = g/2 when g/2 < 17
\* and g/2 + 1 otherwise; the region of 2304 bytes there lies inside the
\* image of 161280 bytes, apart from track 17 (bytes 78336..82943) and apart
\* from the region of every other granule.
C28_GranuleOffset ==
    last.kind = "offset"
        => LET g == last.g
               track == IF g \div 2 < 17 THEN g \div 2 ELSE g \div 2 + 1
           IN  /\ last.off = track * 4608 + (IF g % 2 = 1 THEN 2304 ELSE 0)
               /\ last.off >= 0
               /\ last.off + 2304 <= 161280
               /\ COCOFS_TOTALSIZE = 161280
               /\ last.off + 2304 <= 78336 \/ last.off >= 82944
               /\ cocofs_track_to_offset(COCOFS_DIR_TRACK) = 78336
               /\ \A h \in Granules \ {g} :
                     \/ cocofs_granule_to_offset(h) + 2304 <= last.off
                     \/ last.off + 2304 <= cocofs_granule_to_offset(h)

\* C28's case happens: granule 34, the first past the directory track, is
\* at the start of track 18, and granule 33 ends where track 17 begins.
C28_Witness ==
    /\ last.kind = "offset"
    /\ last.g = 34
    /\ last.off = 82944
    /\ cocofs_granule_to_offset(33) + 2304 = 78336

\* C25: Every chain traversal stays inside the table.  Whatever the image,
\* no walk of a chain reads a granule-map entry at an index of 68 or above:
\* a first granule or a link out of range ends the walk.  cocofs_rm,
\* cocofs_copyout and the scan test the index before they read the entry
\* (880, 933, 816); for cocofs_stat, which has no such test, the indices it
\* has read are all below 68.
C25_WalksStayInside ==
    last.kind = "stat" /\ last.ok
        => \A g \in last.st.reads : g < COCOFS_NGRANULES

\* C26: A successful add always creates the file.  Whenever cocofs_copyin
\* has returned true for a name that was not there, whatever the length of
\* the content, 0 included, the directory holds an occupied slot with that
\* name, extension, type and encoding, and a lookup of the name finds it.
C26_AddCreatesFile ==
    last.kind = "copyin" /\ last.ok
        => /\ cocofs_lookup_raw(directory, last.nm.name, last.nm.ext) # NoDir
           /\ \E i \in Slots :
                 /\ Occupied(i)
                 /\ directory[i].d_name = last.nm.name
                 /\ directory[i].d_ext = last.nm.ext
                 /\ directory[i].d_type = last.nm.type
                 /\ directory[i].d_encoding = last.nm.enc

\* C27: Name uniqueness on tool-built images.  In every state with an image
\* in memory that copyin and rm commands made of a formatted one, no two
\* occupied directory slots hold the same name and extension.
C27_NamesUnique ==
    origin = "format" /\ pc # "closed"
        => \A i, j \in {k \in Slots : Occupied(k)} :
              i # j => \/ directory[i].d_name # directory[j].d_name
                       \/ directory[i].d_ext # directory[j].d_ext

\* C27's case happens: an operand of copyin was turned away because its name
\* is on the image, which holds two files, of different names.
C27_Witness ==
    /\ origin = "format"
    /\ last.kind = "copyin"
    /\ last.why = "exists"
    /\ Cardinality({k \in Slots : Occupied(k)}) = 2

====
